---- MODULE Spec2Model ----
(***************************************************************************)
(* A model of the student analytics dashboard: the CSV parser              *)
(* (js/csvParser.js), the risk engine (js/riskDetection.js), the           *)
(* analytics engine (js/analytics.js), the filter engine (js/filters.js),  *)
(* the export path (handleExport in js/main.js, downloadCSV in the         *)
(* utilities file) and the upload cycle (handleFileSelect, processData and *)
(* handleClearFile in js/main.js).                                         *)
(*                                                                         *)
(* Text is held as TLA+ strings and read character by character with       *)
(* SubSeq.  A JavaScript value is a record [t, n, s]: t is its type,       *)
(* n its number (for t = "number") and s its text (for t = "string").      *)
(* Numbers are held in halves (Scale units per 1), so that 20.5 is a       *)
(* value of the model; every literal of the code is written through N().   *)
(***************************************************************************)
EXTENDS Integers, Sequences, FiniteSets, TLC

VARIABLES
    csv,          \* the text handed to parseCSV
    clock,        \* what Date.now() returned during the last parseCSV call
    outcome,      \* "none" | "returned" | "threw": how that call ended
    parsed,       \* the array that call returned (<<>> when it threw)
    errors,       \* CSVParser.errors
    student,      \* the record handed to the last assessStudent call
    assessment,   \* what that call returned
    analytics,    \* AnalyticsEngine: [data, metrics]
    setDataArg,   \* the array handed to the last analyticsEngine.setData call
    setDataCalls, \* how many analyticsEngine.setData calls there have been
    stage,        \* the upload cycle: "idle" | "parsed" | "processed" | "failed"
    processedData,\* main.js processedData: the assessed records
    filterEngine, \* FilterEngine: [originalData, filteredData, currentFilters, currentSort]
    csvContent,   \* the text downloadCSV wrote last
    reparsed,     \* what parseCSV made of csvContent
    answer,       \* what the last query of the analytics engine returned
    filterCall,   \* the last FilterEngine call: [op, threw]
    uploads,      \* the upload cycles started: [cycles, timers, cleared]
    args,         \* the arguments of the call of linearForecast
    tablePagination \* the TablePagination object

vars == <<csv, clock, outcome, parsed, errors, student, assessment, analytics,
          setDataArg, setDataCalls, stage, processedData, filterEngine,
          csvContent, reparsed, answer, filterCall, uploads, args,
          tablePagination>>

(***************************************************************************)
(* JavaScript values                                                       *)
(***************************************************************************)
Scale == 1 + 1

N(k) == k * Scale

Num(x) == [t |-> "number", n |-> x, s |-> ""]

Str(x) == [t |-> "string", n |-> 0, s |-> x]

Null == [t |-> "null", n |-> 0, s |-> ""]

Undefined == [t |-> "undefined", n |-> 0, s |-> ""]

\* NaN, as parseFloat returns it
NaN == [t |-> "NaN", n |-> 0, s |-> ""]

\* ToBoolean: what `!v` and `v || d` test
Truthy(v) ==
    CASE v.t = "number" -> v.n # 0
      [] v.t = "string" -> v.s # ""
      [] OTHER -> FALSE

Min(a, b) == IF a <= b THEN a ELSE b

Max(a, b) == IF a >= b THEN a ELSE b

(***************************************************************************)
(* Strings                                                                 *)
(***************************************************************************)
Ch(s, i) == SubSeq(s, i, i)

DigitChars == "0123456789"

UpperChars == "ABCDEFGHIJKLMNOPQRSTUVWXYZ"

LowerChars == "abcdefghijklmnopqrstuvwxyz"

IsDigit(c) == \E i \in 1..10 : Ch(DigitChars, i) = c

DigitVal(c) == (CHOOSE i \in 1..10 : Ch(DigitChars, i) = c) - 1

IsLower(c) == \E i \in 1..26 : Ch(LowerChars, i) = c

\* the white space String.prototype.trim removes
IsSpace(c) == c \in {" ", "\t", "\r", "\n"}

LowerChar(c) ==
    IF \E i \in 1..26 : Ch(UpperChars, i) = c
    THEN Ch(LowerChars, CHOOSE i \in 1..26 : Ch(UpperChars, i) = c)
    ELSE c

RECURSIVE ToLowerCase(_)
ToLowerCase(s) ==
    IF s = "" THEN "" ELSE LowerChar(Head(s)) \o ToLowerCase(Tail(s))

RECURSIVE TrimStart(_)
TrimStart(s) ==
    IF s # "" /\ IsSpace(Head(s)) THEN TrimStart(Tail(s)) ELSE s

RECURSIVE TrimEnd(_)
TrimEnd(s) ==
    IF s # "" /\ IsSpace(Ch(s, Len(s)))
    THEN TrimEnd(SubSeq(s, 1, Len(s) - 1))
    ELSE s

Trim(s) == TrimEnd(TrimStart(s))

\* String.prototype.includes
Includes(s, q) ==
    \E i \in 1..(Len(s) - Len(q) + 1) : SubSeq(s, i, i + Len(q) - 1) = q

\* String.prototype.split on a one-character separator: the pieces between
\* one occurrence of sep (or an end of s) and the next
Split(s, sep) ==
    LET cuts == <<0>>
                \o SelectSeq([i \in 1..Len(s) |-> i], LAMBDA i : Ch(s, i) = sep)
                \o <<Len(s) + 1>>
    IN  [k \in 1..(Len(cuts) - 1) |-> SubSeq(s, cuts[k] + 1, cuts[k + 1] - 1)]

\* Array.prototype.join
RECURSIVE Join(_, _)
Join(seq, sep) ==
    IF Len(seq) = 0 THEN ""
    ELSE IF Len(seq) = 1 THEN seq[1]
    ELSE seq[1] \o sep \o Join(Tail(seq), sep)

RECURSIVE NatToStr(_)
NatToStr(k) ==
    IF k < 10 THEN Ch(DigitChars, k + 1)
    ELSE NatToStr(k \div 10) \o Ch(DigitChars, (k % 10) + 1)

\* Number::toString of a number held in halves
NumToStr(x) ==
    LET a == IF x < 0 THEN -x ELSE x
    IN  (IF x < 0 THEN "-" ELSE "")
        \o NatToStr(a \div Scale)
        \o (IF a % Scale = 0 THEN "" ELSE ".5")

\* JsToString, as a template literal and Array.prototype.join apply it
JsToString(v) ==
    CASE v.t = "number" -> NumToStr(v.n)
      [] v.t = "string" -> v.s
      [] v.t = "null" -> "null"
      [] v.t = "NaN" -> "NaN"
      [] OTHER -> "undefined"

\* the digits of s from position i on
RECURSIVE DigitRun(_, _)
DigitRun(s, i) ==
    IF i <= Len(s) /\ IsDigit(Ch(s, i)) THEN Ch(s, i) \o DigitRun(s, i + 1) ELSE ""

RECURSIVE DigitsVal(_)
DigitsVal(d) ==
    IF d = "" THEN 0
    ELSE DigitsVal(SubSeq(d, 1, Len(d) - 1)) * 10 + DigitVal(Ch(d, Len(d)))

\* an unsigned decimal prefix: ip its integer digits, fp its fraction digits
DecimalValue(ip, fp) ==
    IF ip = "" /\ fp = "" THEN NaN
    ELSE Num(DigitsVal(ip) * Scale
             + (IF fp # "" THEN (DigitVal(Head(fp)) * Scale) \div 10 ELSE 0))

\* the fraction digits of s after its integer digits ip
FractionDigits(s, ip) ==
    IF Len(ip) + 1 <= Len(s) /\ Ch(s, Len(ip) + 1) = "."
    THEN DigitRun(s, Len(ip) + 2)
    ELSE ""

ParseUnsigned(s, ip) == DecimalValue(ip, FractionDigits(s, ip))

Negate(v) == IF v.t = "number" THEN Num(-v.n) ELSE v

ParseSigned(s) ==
    IF s # "" /\ Head(s) = "-" THEN Negate(ParseUnsigned(Tail(s), DigitRun(s, 2)))
    ELSE IF s # "" /\ Head(s) = "+" THEN ParseUnsigned(Tail(s), DigitRun(s, 2))
    ELSE ParseUnsigned(s, DigitRun(s, 1))

\* parseFloat of a string: leading white space, an optional sign, then the
\* longest decimal prefix; NaN when there is none.  The texts of the model
\* carry no exponent and at most one fractional digit, 0 or 5.
ParseFloatStr(s0) == ParseSigned(TrimStart(s0))

\* parseFloat of any value: the argument is converted with JsToString first
ParseFloat(v) == IF v.t = "number" THEN v ELSE ParseFloatStr(JsToString(v))

(***************************************************************************)
(* Objects: a function from property name to value                         *)
(***************************************************************************)
EmptyObj == [k \in {} |-> Undefined]

Get(o, k) == IF k \in DOMAIN o THEN o[k] ELSE Undefined

Put(o, k, v) == (k :> v) @@ o

\* (the scan of one field, were a comma to end the field inside quotes too)
RECURSIVE scanFieldAtAnyComma(_, _, _, _)
scanFieldAtAnyComma(line, i, current, inQuotes) ==
    IF i > Len(line) THEN [current |-> current, next |-> 0]
    ELSE IF Ch(line, i) = "\""
    THEN IF inQuotes /\ i + 1 <= Len(line) /\ Ch(line, i + 1) = "\""
         THEN scanFieldAtAnyComma(line, i + 2, current \o "\"", inQuotes)
         ELSE scanFieldAtAnyComma(line, i + 1, current, ~inQuotes)
    ELSE IF Ch(line, i) = ","
    THEN [current |-> current, next |-> i + 1]
    ELSE scanFieldAtAnyComma(line, i + 1, current \o Ch(line, i), inQuotes)

(***************************************************************************)
(* CSVParser (js/csvParser.js)                                             *)
(***************************************************************************)
\* parseCSVLine: the loop over the characters of the line from position i
\* to the comma that ends the field, with the loop's locals current and
\* inQuotes; next is the position after that comma, 0 at the end of the line
RECURSIVE scanField(_, _, _, _)
scanField(line, i, current, inQuotes) ==
    IF i > Len(line) THEN [current |-> current, next |-> 0]
    ELSE IF Ch(line, i) = "\""
    THEN IF inQuotes /\ i + 1 <= Len(line) /\ Ch(line, i + 1) = "\""
         THEN scanField(line, i + 2, current \o "\"", inQuotes)
         ELSE scanField(line, i + 1, current, ~inQuotes)
    ELSE IF Ch(line, i) = "," /\ ~inQuotes
    THEN [current |-> current, next |-> i + 1]
    ELSE scanField(line, i + 1, current \o Ch(line, i), inQuotes)

\* parseCSVLine: the loop from position i on, field by field, with its local
\* values; a comma outside quotes leaves inQuotes false for the next field
RECURSIVE parseCSVLineFrom(_, _, _)
pushField(line, field, values) ==
    IF field.next = 0 THEN Append(values, Trim(field.current))
    ELSE parseCSVLineFrom(line, field.next, Append(values, Trim(field.current)))

parseCSVLineFrom(line, i, values) ==
    pushField(line, scanField(line, i, "", FALSE), values)

parseCSVLine(line) == parseCSVLineFrom(line, 1, <<>>)

\* .replace(/[^a-z0-9]/g, '_')
RECURSIVE ReplaceNonAlnum(_)
ReplaceNonAlnum(s) ==
    IF s = "" THEN ""
    ELSE (IF IsLower(Head(s)) \/ IsDigit(Head(s)) THEN Head(s) ELSE "_")
         \o ReplaceNonAlnum(Tail(s))

\* .replace(/_+/g, '_')
RECURSIVE CollapseUnderscores(_)
CollapseUnderscores(s) ==
    IF Len(s) < 2 THEN s
    ELSE IF Head(s) = "_" /\ Ch(s, 2) = "_" THEN CollapseUnderscores(Tail(s))
    ELSE Head(s) \o CollapseUnderscores(Tail(s))

\* .replace(/^c|c$/g, ''): one leading c and one trailing c are removed
StripEnds(s, c) ==
    LET a == IF s # "" /\ Head(s) = c THEN Tail(s) ELSE s
    IN  IF a # "" /\ Ch(a, Len(a)) = c THEN SubSeq(a, 1, Len(a) - 1) ELSE a

headerMap ==
    [student_id |-> "studentId", id |-> "studentId", studentid |-> "studentId",
     name |-> "name", student_name |-> "name", full_name |-> "name",
     subject |-> "subject", course |-> "subject",
     marks |-> "marks", score |-> "marks", grade |-> "marks",
     attendance |-> "attendance", attendance_percentage |-> "attendance",
     semester |-> "semester", term |-> "semester",
     assessment_type |-> "assessmentType", assessment |-> "assessmentType",
     type |-> "assessmentType"]

normalizeHeader(header) ==
    LET normalized ==
            StripEnds(CollapseUnderscores(ReplaceNonAlnum(ToLowerCase(Trim(header)))), "_")
    IN  IF normalized \in DOMAIN headerMap THEN headerMap[normalized] ELSE normalized

cleanValue(value) ==
    IF value = "" \/ Trim(value) = "" THEN Null
    ELSE LET v == StripEnds(value, "\"")
             numValue == ParseFloatStr(v)
         IN  IF numValue.t = "number" THEN numValue ELSE Str(Trim(v))

\* (a clamp without its lower bound)
ClampAbove(x) == Min(N(100), x)

\* Math.max(0, Math.min(100, x))
Clamp(x) == Max(N(0), Min(N(100), x))

\* the marks / attendance normalisation of validateAndTransformRow
ClampNumber(f) == Num(Clamp(IF f.t = "NaN" THEN N(0) ELSE f.n))

normalizePercent(v) ==
    IF v.t \in {"null", "undefined"} THEN Num(N(0)) ELSE ClampNumber(ParseFloat(v))

\* row[key], or the default when it is missing (falsy)
OrDefault(row, key, default) ==
    IF Truthy(Get(row, key)) THEN row[key] ELSE default

\* row.studentId after the "Generate studentId if missing" step
studentIdOf(row, rowNumber) ==
    OrDefault(row, "studentId", Str("STU-" \o NatToStr(rowNumber)))

\* row.name after the "Ensure name exists" step
nameOf(row, rowNumber) ==
    OrDefault(row, "name", Str("Student " \o JsToString(studentIdOf(row, rowNumber))))

rowIdOf(row, rowNumber, t) ==
    Str(JsToString(studentIdOf(row, rowNumber))
        \o "-" \o JsToString(OrDefault(row, "subject", Str("General")))
        \o "-" \o JsToString(OrDefault(row, "semester", Str("1")))
        \o "-" \o NatToStr(t))

\* validateAndTransformRow: [row |-> the validated row or Null,
\* errors |-> the messages it pushed].  t is what Date.now() returned.
\* The assignments of the code are independent of one another but for
\* studentId, read by name and rowId; every other property of row is kept.
validateAndTransformRow(row, rowNumber, t) ==
    IF ~Truthy(Get(row, "studentId")) /\ ~Truthy(Get(row, "name"))
    THEN [row |-> Null,
          errors |-> <<"Row " \o NatToStr(rowNumber) \o ": Missing student ID or name">>]
    ELSE [row |-> ("studentId" :> studentIdOf(row, rowNumber))
                  @@ ("name" :> nameOf(row, rowNumber))
                  @@ ("marks" :> normalizePercent(Get(row, "marks")))
                  @@ ("attendance" :> normalizePercent(Get(row, "attendance")))
                  @@ ("subject" :> OrDefault(row, "subject", Str("General")))
                  @@ ("semester" :> OrDefault(row, "semester", Str("1")))
                  @@ ("assessmentType" :> OrDefault(row, "assessmentType", Str("Exam")))
                  @@ ("rowId" :> rowIdOf(row, rowNumber, t))
                  @@ row,
          errors |-> <<>>]

\* normalizedHeaders.forEach((header, index) => row[header] = cleanValue(values[index]))
RECURSIVE buildRow(_, _, _, _)
buildRow(normalizedHeaders, values, index, row) ==
    IF index > Len(normalizedHeaders) THEN row
    ELSE buildRow(normalizedHeaders, values, index + 1,
                  Put(row, normalizedHeaders[index], cleanValue(values[index])))

\* the loop of parseCSV over lines[i], i the 0-based index of the code
\* (lines[i] is lines[i + 1] here), with the loop's data and this.errors
RECURSIVE parseRows(_, _, _, _, _, _)
parseRows(lines, normalizedHeaders, i, data, errs, t) ==
    IF i >= Len(lines) THEN [data |-> data, errors |-> errs]
    ELSE LET values == parseCSVLine(lines[i + 1])
         IN  IF Len(values) # Len(normalizedHeaders)
             THEN parseRows(lines, normalizedHeaders, i + 1, data,
                            Append(errs, "Row " \o NatToStr(i + 1)
                                         \o ": Column count mismatch"), t)
             ELSE LET row == buildRow(normalizedHeaders, values, 1, EmptyObj)
                      validated == validateAndTransformRow(row, i + 1, t)
                  IN  parseRows(lines, normalizedHeaders, i + 1,
                                IF validated.row = Null THEN data
                                ELSE Append(data, validated.row),
                                errs \o validated.errors, t)

\* csv.split('\n').filter(line => line.trim())
nonBlankLines(text) == SelectSeq(Split(text, "\n"), LAMBDA line : Trim(line) # "")

\* the condition of the throw that ends parseCSV
\* (a parse that pushed any error fails: the "&& data.length === 0" is lost)
failsOnAnyError(errs, data) == Len(errs) > 0

parseFailed(errs, data) == Len(errs) > 0 /\ Len(data) = 0

\* parseCSV: [threw, data, errors], errors being this.errors when it ends;
\* oldErrors is this.errors when it is called
parseCSV(text, oldErrors, t) ==
    LET lines == nonBlankLines(text)
    IN  IF Len(lines) < 2
        THEN [threw |-> TRUE, data |-> <<>>, errors |-> oldErrors]
        ELSE LET headers == parseCSVLine(lines[1])
                 normalizedHeaders == [j \in 1..Len(headers) |-> normalizeHeader(headers[j])]
                 done == parseRows(lines, normalizedHeaders, 1, <<>>, <<>>, t)
             IN  IF parseFailed(done.errors, done.data)
                 THEN [threw |-> TRUE, data |-> <<>>, errors |-> done.errors]
                 ELSE [threw |-> FALSE, data |-> done.data, errors |-> done.errors]

(***************************************************************************)
(* RiskDetectionEngine (js/riskDetection.js)                               *)
(*                                                                         *)
(* The weights and the raw score are held in tenths (0.4 is 4): every sum  *)
(* of weights the rules can produce is the same in double arithmetic as in *)
(* exact arithmetic on the two sides of every threshold and under          *)
(* Math.round(raw * 100).                                                  *)
(***************************************************************************)
Arr(items) == [t |-> "array", n |-> 0, s |-> "", items |-> items]

\* (v || 0) of a number
OrZero(v) == IF Truthy(v) THEN v.n ELSE N(0)

\* (the Very Low Score rule written with > for <)
checkFlipped(i, s) ==
    CASE i = 1 -> OrZero(Get(s, "marks")) < N(40)
      [] i = 2 -> OrZero(Get(s, "marks")) > N(30)
      [] i = 3 -> OrZero(Get(s, "attendance")) < N(60)
      [] i = 4 -> OrZero(Get(s, "attendance")) < N(50)
      [] i = 5 -> OrZero(Get(s, "marks")) < N(50) /\ OrZero(Get(s, "attendance")) < N(70)
      [] i = 6 -> OrZero(Get(s, "marks")) < N(35) /\ OrZero(Get(s, "attendance")) < N(60)

\* this.rules[i].check(student)
check(i, s) ==
    CASE i = 1 -> OrZero(Get(s, "marks")) < N(40)
      [] i = 2 -> OrZero(Get(s, "marks")) < N(30)
      [] i = 3 -> OrZero(Get(s, "attendance")) < N(60)
      [] i = 4 -> OrZero(Get(s, "attendance")) < N(50)
      [] i = 5 -> OrZero(Get(s, "marks")) < N(50) /\ OrZero(Get(s, "attendance")) < N(70)
      [] i = 6 -> OrZero(Get(s, "marks")) < N(35) /\ OrZero(Get(s, "attendance")) < N(60)

\* (the rules, were the weight of Very Low Score 0.5)
rulesLighter ==
    << [name |-> "Low Score", weight |-> 4],
       [name |-> "Very Low Score", weight |-> 5],
       [name |-> "Low Attendance", weight |-> 3],
       [name |-> "Very Low Attendance", weight |-> 5],
       [name |-> "Combined Risk", weight |-> 7],
       [name |-> "Critical Risk", weight |-> 9] >>

\* this.rules: the names and the weights, in tenths
rules ==
    << [name |-> "Low Score", weight |-> 4],
       [name |-> "Very Low Score", weight |-> 6],
       [name |-> "Low Attendance", weight |-> 3],
       [name |-> "Very Low Attendance", weight |-> 5],
       [name |-> "Combined Risk", weight |-> 7],
       [name |-> "Critical Risk", weight |-> 9] >>

\* the forEach of calculateRiskScore, from rule i on
RECURSIVE sumWeights(_, _, _)
sumWeights(s, i, riskScore) ==
    IF i > Len(rules) THEN riskScore
    ELSE sumWeights(s, i + 1,
                    IF check(i, s) THEN riskScore + rules[i].weight ELSE riskScore)

\* (the cap of the sum at 1 is lost)
calculateRiskScoreUncapped(s) == sumWeights(s, 1, 0)

\* calculateRiskScore: the raw score, in tenths
calculateRiskScore(s) == Min(10, sumWeights(s, 1, 0))

\* (the thresholds taken as strict bounds)
getRiskLevelStrict(riskScore) ==
    IF riskScore > 7 THEN "high"
    ELSE IF riskScore > 4 THEN "medium"
    ELSE IF riskScore > 2 THEN "low"
    ELSE "none"

getRiskLevel(riskScore) ==
    IF riskScore >= 7 THEN "high"
    ELSE IF riskScore >= 4 THEN "medium"
    ELSE IF riskScore >= 2 THEN "low"
    ELSE "none"

scoreFactor(marks) ==
    IF marks < N(30) THEN <<"Very low score (<30%)">>
    ELSE IF marks < N(40) THEN <<"Low score (<40%)">>
    ELSE IF marks < N(50) THEN <<"Below passing threshold">>
    ELSE <<>>

\* (the attendance message, were there none between 50 and 70)
attendanceFactorVeryLowOnly(attendance) ==
    IF attendance < N(50) THEN <<"Very low attendance (<50%)">>
    ELSE <<>>

attendanceFactor(attendance) ==
    IF attendance < N(50) THEN <<"Very low attendance (<50%)">>
    ELSE IF attendance < N(60) THEN <<"Low attendance (<60%)">>
    ELSE IF attendance < N(70) THEN <<"Below recommended attendance">>
    ELSE <<>>

\* (the combined message given for either band alone)
combinedFactorEither(marks, attendance) ==
    IF marks < N(50) \/ attendance < N(70) THEN <<"Combined low performance">>
    ELSE <<>>

combinedFactor(marks, attendance) ==
    IF marks < N(50) /\ attendance < N(70) THEN <<"Combined low performance">>
    ELSE <<>>

getRiskFactors(s) ==
    scoreFactor(OrZero(Get(s, "marks")))
    \o attendanceFactor(OrZero(Get(s, "attendance")))
    \o combinedFactor(OrZero(Get(s, "marks")), OrZero(Get(s, "attendance")))

\* the riskScore assessStudent returns: Math.round(riskScore * 100) of a raw
\* score in tenths is 10 times it
riskScoreOf(s) == Num(N(calculateRiskScore(s) * 10))

assessStudent(s) ==
    [riskScore |-> riskScoreOf(s),
     riskLevel |-> Str(getRiskLevel(calculateRiskScore(s))),
     factors |-> Arr(getRiskFactors(s))]

\* the object assessAllStudents makes of one student
assessed(s) ==
    ("riskScore" :> assessStudent(s).riskScore)
    @@ ("riskLevel" :> assessStudent(s).riskLevel)
    @@ ("riskFactors" :> assessStudent(s).factors)
    @@ s

assessAllStudents(students) == [j \in 1..Len(students) |-> assessed(students[j])]


(***************************************************************************)
(* The texts parseCSV is given                                             *)
(***************************************************************************)
MaxRows == 3

MaxClock == 2

FullHeader == "id,name,marks,attendance,subject,semester,type"

IdCells == {"S1", "101", "0", ""}

NameCells == {"Al", "", "7up", "\"Lee, J\""}

MarksCells == {"", "abc", "-5", "150", "50", "20.5"}

AttendanceCells == {"", "x", "-1", "101", "45"}

TailCells == {"Math,2,Quiz", ",,", "Art,0,Exam", "Bio,S2,"}

\* a header and one data row, every cell drawn from the sets above
OneRowTexts ==
    {FullHeader \o "\n" \o Join(<<i, n, m, a, x>>, ",") :
        i \in IdCells, n \in NameCells, m \in MarksCells,
        a \in AttendanceCells, x \in TailCells}

ShortHeader == " Student ID ,Full Name,Score,attendance_percentage\r"

\* a good row, a row with too few cells, a row without id and name, a blank
\* line, a row without id, a row with a CR and a quoted comma
ShortRows == {"S1,Alice,25,45", "S2,Bob,85", ",,70,80", "  ", ",Di,40,60",
              "7,\"Roe, R\",50,70\r"}

\* nothing, a header alone, or a header and up to MaxRows lines
ManyRowTexts ==
    {""} \cup {Join(<<ShortHeader>> \o rows, "\n") :
                  rows \in UNION {[1..k -> ShortRows] : k \in 0..MaxRows}}

\* the texts of a second call: nothing, a header alone, one good row
NextTexts == {"", ShortHeader, ShortHeader \o "\n" \o "S1,Alice,25,45"}

(***************************************************************************)
(* The parser on its own: a text is chosen, parseCSV is called on it, and   *)
(* the next text is chosen while this.errors stays what the call left.      *)
(***************************************************************************)
Idle ==
    /\ student = Null
    /\ assessment = Null
    /\ analytics = Null
    /\ setDataArg = <<>>
    /\ setDataCalls = 0
    /\ stage = "idle"
    /\ processedData = <<>>
    /\ filterEngine = Null
    /\ csvContent = ""
    /\ reparsed = Null
    /\ answer = Null
    /\ filterCall = Null
    /\ uploads = [cycles |-> <<>>, timers |-> <<>>]
    /\ args = Null
    /\ tablePagination = Null

InitParse ==
    /\ csv \in OneRowTexts \cup ManyRowTexts
    /\ clock = 1
    /\ outcome = "none"
    /\ parsed = <<>>
    /\ errors = <<>>
    /\ Idle
    /\ answer = Null
    /\ filterCall = Null
    /\ uploads = [cycles |-> <<>>, timers |-> <<>>]
    /\ args = Null
    /\ tablePagination = Null

\* csvParser.parseCSV(csv)
CallParseCSV ==
    /\ outcome = "none"
    /\ \E t \in 1..MaxClock :
          LET r == parseCSV(csv, errors, t)
          IN  /\ clock' = t
              /\ outcome' = IF r.threw THEN "threw" ELSE "returned"
              /\ parsed' = r.data
              /\ errors' = r.errors
    /\ UNCHANGED <<csv, student, assessment, analytics, setDataArg,
                   setDataCalls, stage, processedData, filterEngine,
                   csvContent, reparsed, answer, filterCall, uploads, args,
                   tablePagination>>

\* the caller picks the next text
ChooseText ==
    /\ outcome # "none"
    /\ csv' \in NextTexts
    /\ outcome' = "none"
    /\ parsed' = <<>>
    /\ UNCHANGED <<clock, errors, student, assessment, analytics, setDataArg,
                   setDataCalls, stage, processedData, filterEngine,
                   csvContent, reparsed, answer, filterCall, uploads, args,
                   tablePagination>>

NextParse == CallParseCSV \/ ChooseText

SpecParse == InitParse /\ [][NextParse]_vars

(***************************************************************************)
(* The rows of a text, as the claims about the parser speak of them: lines  *)
(* are the non-blank lines of the text, line 1 the header, lines 2, 3, ...  *)
(* the data rows, and headers the normalized names of line 1.               *)
(***************************************************************************)
HeadersOf(lines) ==
    IF lines = <<>> THEN <<>>
    ELSE [j \in 1..Len(parseCSVLine(lines[1])) |->
             normalizeHeader(parseCSVLine(lines[1])[j])]

\* line k has as many tokens as the header
WellFormed(lines, headers, k) == Len(parseCSVLine(lines[k])) = Len(headers)

\* the cells of a well-formed line k, by header name
RawRow(lines, headers, k) == buildRow(headers, parseCSVLine(lines[k]), 1, EmptyObj)

\* the cell of a column is empty, or the text has no such column
Missing(row, key) == Get(row, key).t \in {"null", "undefined"}

InPercentRange(v) == v.t = "number" /\ N(0) <= v.n /\ v.n <= N(100)

NonEmpty(v) == v.t \in {"number", "string"} /\ v # Str("")

\* the data lines 2, 3, ... of a text, in input order
DataLines(lines) == [j \in 1..(Len(lines) - 1) |-> j + 1]

\* the lines the code accepts: well-formed, and row validation returns a row
PassingLines(lines, headers) ==
    SelectSeq(DataLines(lines),
        LAMBDA k : /\ WellFormed(lines, headers, k)
                   /\ validateAndTransformRow(RawRow(lines, headers, k), k, 1).row # Null)

\* the lines that hold a studentId or a name
IdentifiedLines(lines, headers) ==
    SelectSeq(DataLines(lines),
        LAMBDA k : /\ WellFormed(lines, headers, k)
                   /\ ~(Missing(RawRow(lines, headers, k), "studentId")
                        /\ Missing(RawRow(lines, headers, k), "name")))

(***************************************************************************)
(* C1: every record parseCSV returns has marks and attendance that are      *)
(* numbers within [0, 100], whatever the cells held.                        *)
(***************************************************************************)
C1_PercentInRange ==
    outcome = "returned" =>
        \A j \in 1..Len(parsed) :
            /\ InPercentRange(parsed[j]["marks"])
            /\ InPercentRange(parsed[j]["attendance"])

\* a row with marks above 100 and a negative attendance was returned, clamped
C1_Witness ==
    /\ outcome = "returned"
    /\ csv = FullHeader \o "\n" \o "S1,Al,150,-1,Math,2,Quiz"
    /\ Len(parsed) = 1
    /\ parsed[1]["marks"] = Num(N(100))
    /\ parsed[1]["attendance"] = Num(N(0))

(***************************************************************************)
(* C2: parseCSV throws exactly when the text has fewer than 2 non-blank     *)
(* lines or no data row is accepted; otherwise it returns exactly the       *)
(* accepted rows in input order, and this.errors holds one entry per        *)
(* dropped row (a row of the wrong length or one that fails validation).    *)
(***************************************************************************)
C2_ThrowsOrReturnsAccepted ==
    outcome # "none" =>
        \A lines \in {nonBlankLines(csv)} :
        \A passing \in {PassingLines(lines, HeadersOf(lines))} :
            /\ outcome = "threw" <=> (Len(lines) < 2 \/ passing = <<>>)
            /\ outcome = "returned" =>
                  /\ Len(parsed) = Len(passing)
                  /\ \A j \in 1..Len(parsed) :
                        parsed[j] = validateAndTransformRow(
                                        RawRow(lines, HeadersOf(lines), passing[j]),
                                        passing[j], clock).row
                  /\ Len(errors) = (Len(lines) - 1) - Len(parsed)

\* three data rows, one too short and one without id and name: one record
\* is returned and two errors are kept
C2_Witness ==
    /\ outcome = "returned"
    /\ csv = Join(<<ShortHeader, "S2,Bob,85", ",Di,40,60", ",,70,80">>, "\n")
    /\ Len(parsed) = 1
    /\ parsed[1]["name"] = Str("Di")
    /\ errors = <<"Row 2: Column count mismatch", "Row 4: Missing student ID or name">>

(***************************************************************************)
(* C3: every accepted record has non-null marks and attendance and a        *)
(* non-empty studentId and name; a row with neither studentId nor name is   *)
(* rejected with an error, a row missing only studentId gets "STU-" + its   *)
(* row index, a row missing only name gets "Student " + studentId, and a    *)
(* missing subject / semester / assessmentType becomes "General" / "1" /    *)
(* "Exam".  The accepted rows are then the well-formed rows that hold a     *)
(* studentId or a name.                                                     *)
(***************************************************************************)
C3_RowDefaults ==
    outcome # "none" =>
        \A lines \in {nonBlankLines(csv)} :
        \A headers \in {HeadersOf(lines)} :
        \A identified \in {IdentifiedLines(lines, headers)} :
            Len(lines) >= 2 =>
                /\ \A k \in 2..Len(lines) :
                      (/\ WellFormed(lines, headers, k)
                       /\ Missing(RawRow(lines, headers, k), "studentId")
                       /\ Missing(RawRow(lines, headers, k), "name"))
                      => \E e \in 1..Len(errors) :
                            errors[e] = "Row " \o NatToStr(k)
                                        \o ": Missing student ID or name"
                /\ Len(parsed) = Len(identified)
                /\ \A j \in 1..Len(parsed) :
                    \A raw \in {RawRow(lines, headers, identified[j])} :
                      /\ parsed[j]["marks"].t = "number"
                      /\ parsed[j]["attendance"].t = "number"
                      /\ NonEmpty(parsed[j]["studentId"])
                      /\ NonEmpty(parsed[j]["name"])
                      /\ Missing(raw, "studentId") =>
                            parsed[j]["studentId"]
                                = Str("STU-" \o NatToStr(identified[j]))
                      /\ ~Missing(raw, "studentId") =>
                            parsed[j]["studentId"] = raw["studentId"]
                      /\ Missing(raw, "name") =>
                            parsed[j]["name"]
                                = Str("Student " \o JsToString(parsed[j]["studentId"]))
                      /\ ~Missing(raw, "name") => parsed[j]["name"] = raw["name"]
                      /\ Missing(raw, "subject") => parsed[j]["subject"] = Str("General")
                      /\ Missing(raw, "semester") => parsed[j]["semester"] = Str("1")
                      /\ Missing(raw, "assessmentType") =>
                            parsed[j]["assessmentType"] = Str("Exam")

(***************************************************************************)
(* C4: in every returned record studentId, name, subject, semester and      *)
(* assessmentType are strings, also when the cell looks numeric.            *)
(***************************************************************************)
C4_TextFieldsAreStrings ==
    outcome = "returned" =>
        \A j \in 1..Len(parsed) :
            \A key \in {"studentId", "name", "subject", "semester", "assessmentType"} :
                parsed[j][key].t = "string"

(***************************************************************************)
(* The risk engine on its own: a record with marks and attendance in        *)
(* [0, 100] is chosen and assessStudent is called on it.                    *)
(***************************************************************************)
\* every integer of [0, 100], and the half just below each threshold of the
\* rule table and of the factor bands
Percents ==
    {N(k) : k \in 0..100} \cup {N(k) - 1 : k \in {30, 35, 40, 50, 60, 70}}

InitRisk ==
    /\ student \in {[marks |-> Num(m), attendance |-> Num(a)] :
                        m \in Percents, a \in Percents}
    /\ assessment = Null
    /\ csv = ""
    /\ clock = 1
    /\ outcome = "none"
    /\ parsed = <<>>
    /\ errors = <<>>
    /\ analytics = Null
    /\ setDataArg = <<>>
    /\ setDataCalls = 0
    /\ stage = "idle"
    /\ processedData = <<>>
    /\ filterEngine = Null
    /\ csvContent = ""
    /\ reparsed = Null
    /\ answer = Null
    /\ filterCall = Null
    /\ uploads = [cycles |-> <<>>, timers |-> <<>>]
    /\ args = Null
    /\ tablePagination = Null

\* riskDetectionEngine.assessStudent(student)
CallAssessStudent ==
    /\ assessment = Null
    /\ assessment' = assessStudent(student)
    /\ UNCHANGED <<csv, clock, outcome, parsed, errors, student, analytics,
                   setDataArg, setDataCalls, stage, processedData,
                   filterEngine, csvContent, reparsed, answer, filterCall,
                   uploads, args, tablePagination>>

NextRisk == CallAssessStudent

SpecRisk == InitRisk /\ [][NextRisk]_vars

\* the six-rule table of the risk engine: the sum, in tenths, of the weights
\* of the rules whose condition holds for marks m and attendance a
RuleTableSum(m, a) ==
    (IF m < N(40) THEN 4 ELSE 0)
    + (IF m < N(30) THEN 6 ELSE 0)
    + (IF a < N(60) THEN 3 ELSE 0)
    + (IF a < N(50) THEN 5 ELSE 0)
    + (IF m < N(50) /\ a < N(70) THEN 7 ELSE 0)
    + (IF m < N(35) /\ a < N(60) THEN 9 ELSE 0)

(***************************************************************************)
(* C6: riskScore = round(100 * min(1, sum of the weights of the rules of    *)
(* the table that hold)); marks 25 / attendance 45 gives 100 and marks 85 / *)
(* attendance 95 gives 0.                                                   *)
(***************************************************************************)
C6_RiskScoreIsCappedSum ==
    assessment # Null =>
        /\ assessment.riskScore
              = Num(N(10 * Min(10, RuleTableSum(student["marks"].n,
                                                student["attendance"].n))))
        /\ (student["marks"] = Num(N(25)) /\ student["attendance"] = Num(N(45)))
              => assessment.riskScore = Num(N(100))
        /\ (student["marks"] = Num(N(85)) /\ student["attendance"] = Num(N(95)))
              => assessment.riskScore = Num(N(0))

\* marks 25 / attendance 45 was assessed, and the sum 3.4 was capped to 100
C6_Witness ==
    /\ assessment # Null
    /\ student["marks"] = Num(N(25))
    /\ student["attendance"] = Num(N(45))
    /\ RuleTableSum(N(25), N(45)) = 34
    /\ assessment.riskScore = Num(N(100))

(***************************************************************************)
(* C7: riskLevel follows the capped raw score: high when raw >= 0.7,        *)
(* medium when 0.4 <= raw < 0.7, low when 0.2 <= raw < 0.4, none otherwise; *)
(* exactly one level is assigned.                                           *)
(***************************************************************************)
C7_RiskLevelByThresholds ==
    assessment # Null =>
        \A raw \in {Min(10, RuleTableSum(student["marks"].n, student["attendance"].n))} :
            /\ assessment.riskLevel.s \in {"high", "medium", "low", "none"}
            /\ assessment.riskLevel.s = "high" <=> raw >= 7
            /\ assessment.riskLevel.s = "medium" <=> (4 <= raw /\ raw < 7)
            /\ assessment.riskLevel.s = "low" <=> (2 <= raw /\ raw < 4)
            /\ assessment.riskLevel.s = "none" <=> raw < 2

\* a record whose raw score is exactly 0.7 (the Combined Risk rule alone) is high
C7_Witness ==
    /\ assessment # Null
    /\ student["marks"] = Num(N(45))
    /\ student["attendance"] = Num(N(65))
    /\ RuleTableSum(N(45), N(65)) = 7
    /\ assessment.riskLevel = Str("high")

(***************************************************************************)
(* C8: riskScore does not decrease when marks decrease with attendance      *)
(* fixed, nor when attendance decreases with marks fixed, over [0, 100].    *)
(***************************************************************************)
C8_RiskMonotone ==
    assessment # Null =>
        /\ \A m2 \in Percents :
              student["marks"].n <= m2 =>
                  assessment.riskScore.n
                      >= riskScoreOf([student EXCEPT !["marks"] = Num(m2)]).n
        /\ \A a2 \in Percents :
              student["attendance"].n <= a2 =>
                  assessment.riskScore.n
                      >= riskScoreOf([student EXCEPT !["attendance"] = Num(a2)]).n

\* a record assessed at 40 whose score rises to 100 as its marks fall to 29.5
C8_Witness ==
    /\ assessment # Null
    /\ student["marks"] = Num(N(30) - 1)
    /\ student["attendance"] = Num(N(80))
    /\ assessment.riskScore = Num(N(100))
    /\ assessStudent([student EXCEPT !["marks"] = Num(N(30))]).riskScore = Num(N(40))

(***************************************************************************)
(* The numbers of the metrics: quotients n/d of a number held in halves by *)
(* a count, in lowest terms, so that equal numbers are equal values.       *)
(***************************************************************************)
RECURSIVE GCD(_, _)
GCD(a, b) == IF b = 0 THEN a ELSE GCD(b, a % b)

Frac(n, d) ==
    [t |-> "number", n |-> n \div GCD(n, d), d |-> d \div GCD(n, d)]

\* the number k, a count or a literal
Count(k) == Frac(N(k), 1)

\* a - b
Minus(a, b) == Frac(a.n * b.d - b.n * a.d, a.d * b.d)

\* a + b
Plus(a, b) == Frac(a.n * b.d + b.n * a.d, a.d * b.d)

\* a - b as a sort comparator reads it: negative, zero or positive
Compare(a, b) == a.n * b.d - b.n * a.d

\* array.reduce((a, b) => a + b, 0) over numbers held in halves
RECURSIVE Sum(_)
Sum(xs) == IF Len(xs) = 0 THEN 0 ELSE Head(xs) + Sum(Tail(xs))

\* Math.max(...xs) and Math.min(...xs) of a non-empty array
RECURSIVE MaxOf(_)
MaxOf(xs) == IF Len(xs) = 1 THEN xs[1] ELSE Max(xs[1], MaxOf(Tail(xs)))

RECURSIVE MinOf(_)
MinOf(xs) == IF Len(xs) = 1 THEN xs[1] ELSE Min(xs[1], MinOf(Tail(xs)))

\* array.map(d => d[key] || 0)
Column(array, key) == [i \in 1..Len(array) |-> OrZero(Get(array[i], key))]

\* the mean of a non-empty array of numbers
Mean(xs) == Frac(Sum(xs), Len(xs))

(***************************************************************************)
(* utilities                                                               *)
(***************************************************************************)
\* calculatePercentage(part, total)
calculatePercentage(part, total) ==
    IF total = 0 THEN Count(0) ELSE Frac(part * N(100), total)

\* groupBy(array, key): the groups, by the string their key converts to
groupBy(array, key) ==
    [g \in {JsToString(Get(array[i], key)) : i \in 1..Len(array)} |->
        SelectSeq(array, LAMBDA item : JsToString(Get(item, key)) = g)]

(***************************************************************************)
(* AnalyticsEngine (js/analytics.js)                                       *)
(***************************************************************************)
getEmptyMetrics ==
    [totalStudents |-> Count(0),
     uniqueStudents |-> Count(0),
     averageScore |-> Count(0),
     averageAttendance |-> Count(0),
     passRate |-> Count(0),
     failRate |-> Count(0),
     subjectStats |-> <<>>,
     semesterStats |-> <<>>,
     scoreDistribution |-> <<>>,
     attendanceDistribution |-> <<>>,
     topPerformers |-> <<>>,
     bottomPerformers |-> <<>>]

getTotalStudents(data) == Count(Len(data))

\* new Set(ids).size: a Set tells the number 101 from the string "101"
uniqueCount(array) ==
    Count(Cardinality({Get(array[i], "studentId") : i \in 1..Len(array)}))

getUniqueStudents(data) == uniqueCount(data)

getAverageScore(data) ==
    IF Len(data) = 0 THEN Count(0) ELSE Mean(Column(data, "marks"))

getAverageAttendance(data) ==
    IF Len(data) = 0 THEN Count(0) ELSE Mean(Column(data, "attendance"))

\* scores.filter(s => s > 50).length
passedAbove(scores) == Len(SelectSeq(scores, LAMBDA s : s > N(50)))

\* scores.filter(s => s >= 50).length
passed(scores) == Len(SelectSeq(scores, LAMBDA s : s >= N(50)))

getPassRate(data) ==
    IF Len(data) = 0 THEN Count(0)
    ELSE calculatePercentage(passed(Column(data, "marks")), Len(data))

getFailRate(data) == Minus(Count(100), getPassRate(data))

subjectStatsOf(subjectData) ==
    [count |-> Count(Len(subjectData)),
     averageScore |-> Mean(Column(subjectData, "marks")),
     averageAttendance |-> Mean(Column(subjectData, "attendance")),
     maxScore |-> Frac(MaxOf(Column(subjectData, "marks")), 1),
     minScore |-> Frac(MinOf(Column(subjectData, "marks")), 1),
     passRate |-> calculatePercentage(passed(Column(subjectData, "marks")),
                                      Len(subjectData))]

getSubjectStats(data) ==
    [subject \in DOMAIN groupBy(data, "subject") |->
        subjectStatsOf(groupBy(data, "subject")[subject])]

semesterStatsOf(semesterData) ==
    [count |-> Count(Len(semesterData)),
     averageScore |-> Mean(Column(semesterData, "marks")),
     averageAttendance |-> Mean(Column(semesterData, "attendance")),
     uniqueStudents |-> uniqueCount(semesterData)]

getSemesterStats(data) ==
    [semester \in DOMAIN groupBy(data, "semester") |->
        semesterStatsOf(groupBy(data, "semester")[semester])]

\* (the range a score falls in, were the upper bounds exclusive)
scoreRangeExclusive(score) ==
    IF score < N(20) THEN "0-20"
    ELSE IF score < N(40) THEN "21-40"
    ELSE IF score < N(60) THEN "41-60"
    ELSE IF score < N(80) THEN "61-80"
    ELSE "81-100"

\* the range a score falls in
scoreRange(score) ==
    IF score <= N(20) THEN "0-20"
    ELSE IF score <= N(40) THEN "21-40"
    ELSE IF score <= N(60) THEN "41-60"
    ELSE IF score <= N(80) THEN "61-80"
    ELSE "81-100"

getScoreDistribution(data) ==
    [range \in {"0-20", "21-40", "41-60", "61-80", "81-100"} |->
        Count(Len(SelectSeq(Column(data, "marks"),
                            LAMBDA score : scoreRange(score) = range)))]

\* the range an attendance falls in
attendanceRange(attendance) ==
    IF attendance <= N(50) THEN "0-50"
    ELSE IF attendance <= N(70) THEN "51-70"
    ELSE IF attendance <= N(85) THEN "71-85"
    ELSE "86-100"

getAttendanceDistribution(data) ==
    [range \in {"0-50", "51-70", "71-85", "86-100"} |->
        Count(Len(SelectSeq(Column(data, "attendance"),
                            LAMBDA attendance : attendanceRange(attendance) = range)))]

\* the property keys of studentAverages in the order they were created
insertionKeys(data) ==
    LET key(i) == JsToString(Get(data[i], "studentId"))
        first == SelectSeq([i \in 1..Len(data) |-> i],
                           LAMBDA i : \A j \in 1..(i - 1) : key(j) # key(i))
    IN  [k \in 1..Len(first) |-> key(first[k])]

\* an integer-like property key ("0", "101"; not "007", not "S1")
IsIntegerKey(k) ==
    /\ k # ""
    /\ \A i \in 1..Len(k) : IsDigit(Ch(k, i))
    /\ Len(k) > 1 => Ch(k, 1) # "0"

\* the integer keys ks in ascending numeric order
RECURSIVE Ascending(_)
Ascending(ks) ==
    IF ks = {} THEN <<>>
    ELSE LET least == CHOOSE k \in ks : \A o \in ks : DigitsVal(k) <= DigitsVal(o)
         IN  <<least>> \o Ascending(ks \ {least})

\* Object.values order: integer-like keys ascending, then the others as created
ObjectKeys(keys) ==
    Ascending({keys[i] : i \in {j \in 1..Len(keys) : IsIntegerKey(keys[j])}})
    \o SelectSeq(keys, LAMBDA k : ~IsIntegerKey(k))

\* the entry of studentAverages under key k, averaged
studentAverage(data, k) ==
    LET rows == SelectSeq(data, LAMBDA d : JsToString(Get(d, "studentId")) = k)
    IN  [studentId |-> Get(rows[1], "studentId"),
         name |-> Get(rows[1], "name"),
         averageScore |-> Mean(Column(rows, "marks")),
         averageAttendance |-> Mean(Column(rows, "attendance"))]

\* Object.values(studentAverages).map(...)
studentAverages(data) ==
    LET keys == ObjectKeys(insertionKeys(data))
    IN  [i \in 1..Len(keys) |-> studentAverage(data, keys[i])]

\* Array.prototype.sort (stable) by averageScore: dir = 1 ascending, -1 descending
RECURSIVE InsertSorted(_, _, _)
InsertSorted(x, sorted, dir) ==
    IF Len(sorted) = 0 THEN <<x>>
    ELSE IF dir * Compare(x.averageScore, Head(sorted).averageScore) < 0
         THEN <<x>> \o sorted
    ELSE <<Head(sorted)>> \o InsertSorted(x, Tail(sorted), dir)

RECURSIVE SortByAverage(_, _)
SortByAverage(students, dir) ==
    IF Len(students) = 0 THEN <<>>
    ELSE InsertSorted(students[Len(students)],
                      SortByAverage(SubSeq(students, 1, Len(students) - 1), dir),
                      dir)

\* array.slice(0, limit)
Slice(array, limit) == SubSeq(array, 1, Min(limit, Len(array)))

getTopPerformers(data, limit) ==
    Slice(SortByAverage(studentAverages(data), -1), limit)

getBottomPerformers(data, limit) ==
    Slice(SortByAverage(studentAverages(data), 1), limit)

\* calculateMetrics, were it to keep the metrics it has when the data is empty
calculateMetricsKeeping(data, metrics) ==
    IF Len(data) = 0 THEN metrics
    ELSE [totalStudents |-> getTotalStudents(data),
          uniqueStudents |-> getUniqueStudents(data),
          averageScore |-> getAverageScore(data),
          averageAttendance |-> getAverageAttendance(data),
          passRate |-> getPassRate(data),
          failRate |-> getFailRate(data),
          subjectStats |-> getSubjectStats(data),
          semesterStats |-> getSemesterStats(data),
          scoreDistribution |-> getScoreDistribution(data),
          attendanceDistribution |-> getAttendanceDistribution(data),
          topPerformers |-> getTopPerformers(data, 10),
          bottomPerformers |-> getBottomPerformers(data, 10)]

\* calculateMetrics: the metrics of this.data; metrics is this.metrics before
calculateMetrics(data, metrics) ==
    IF Len(data) = 0 THEN getEmptyMetrics
    ELSE [totalStudents |-> getTotalStudents(data),
          uniqueStudents |-> getUniqueStudents(data),
          averageScore |-> getAverageScore(data),
          averageAttendance |-> getAverageAttendance(data),
          passRate |-> getPassRate(data),
          failRate |-> getFailRate(data),
          subjectStats |-> getSubjectStats(data),
          semesterStats |-> getSemesterStats(data),
          scoreDistribution |-> getScoreDistribution(data),
          attendanceDistribution |-> getAttendanceDistribution(data),
          topPerformers |-> getTopPerformers(data, 10),
          bottomPerformers |-> getBottomPerformers(data, 10)]

\* setData(data), engine the engine before the call
setData(engine, data) ==
    [data |-> data, metrics |-> calculateMetrics(data, engine.metrics)]

getMetrics(engine) == engine.metrics

(***************************************************************************)
(* The analytics engine as main.js calls it: processData hands it the      *)
(* assessed records of a parsed text, handleClearFile an empty array.      *)
(***************************************************************************)
MaxData == 3

MaxCalls == 3

DataRows ==
    {"S1,Al,50,45,Math,1,Quiz",
     "S2,Bo,49.5,95,Math,1,Exam",
     "101,Cy,85,95,Art,2,Exam"}

DataTexts ==
    {Join(<<FullHeader>> \o rows, "\n") :
        rows \in UNION {[1..n -> DataRows] : n \in 1..MaxData}}

\* the processedData of processData for the rows parsed from text
assessedRecords(text) == assessAllStudents(parseCSV(text, <<>>, 1).data)

DataSets == {assessedRecords(text) : text \in DataTexts}

\* new AnalyticsEngine()
NewAnalyticsEngine == [data |-> <<>>, metrics |-> EmptyObj]

InitAnalytics ==
    /\ analytics = NewAnalyticsEngine
    /\ setDataArg = <<>>
    /\ setDataCalls = 0
    /\ csv = ""
    /\ clock = 1
    /\ outcome = "none"
    /\ parsed = <<>>
    /\ errors = <<>>
    /\ student = Null
    /\ assessment = Null
    /\ stage = "idle"
    /\ processedData = <<>>
    /\ filterEngine = Null
    /\ csvContent = ""
    /\ reparsed = Null
    /\ answer = Null
    /\ filterCall = Null
    /\ uploads = [cycles |-> <<>>, timers |-> <<>>]
    /\ args = Null
    /\ tablePagination = Null

\* analyticsEngine.setData(data) with the assessed records of a parsed text
CallSetData ==
    /\ setDataCalls < MaxCalls
    /\ \E data \in DataSets :
          /\ analytics' = setData(analytics, data)
          /\ setDataArg' = data
    /\ setDataCalls' = setDataCalls + 1
    /\ UNCHANGED <<csv, clock, outcome, parsed, errors, student, assessment,
                   stage, processedData, filterEngine, csvContent, reparsed,
                   answer, filterCall, uploads, args, tablePagination>>

\* analyticsEngine.setData([]), as handleClearFile calls it
CallSetDataEmpty ==
    /\ setDataCalls < MaxCalls
    /\ analytics' = setData(analytics, <<>>)
    /\ setDataArg' = <<>>
    /\ setDataCalls' = setDataCalls + 1
    /\ UNCHANGED <<csv, clock, outcome, parsed, errors, student, assessment,
                   stage, processedData, filterEngine, csvContent, reparsed,
                   answer, filterCall, uploads, args, tablePagination>>

NextAnalytics == CallSetData \/ CallSetDataEmpty

SpecAnalytics == InitAnalytics /\ [][NextAnalytics]_vars

\* how many records of data have marks of at least 50
PassingRecords(data) ==
    Cardinality({i \in 1..Len(data) :
                    /\ Get(data[i], "marks").t = "number"
                    /\ Get(data[i], "marks").n >= N(50)})

(***************************************************************************)
(* C9: after setData on a non-empty record set, passRate is the percentage *)
(* of the records whose marks are at least 50 (marks of exactly 50 pass),   *)
(* and passRate + failRate is 100.                                          *)
(***************************************************************************)
C9_PassRateCountsMarksAtLeast50 ==
    (setDataCalls > 0 /\ Len(setDataArg) > 0) =>
        /\ getMetrics(analytics).passRate
               = Frac(PassingRecords(setDataArg) * N(100), Len(setDataArg))
        /\ Plus(getMetrics(analytics).passRate, getMetrics(analytics).failRate)
               = Count(100)

\* two records, one with marks of exactly 50 and one just below: half pass
C9_Witness ==
    /\ setDataCalls > 0
    /\ Len(setDataArg) = 2
    /\ Get(setDataArg[1], "marks") = Num(N(50))
    /\ Get(setDataArg[2], "marks") = Num(N(50) - 1)
    /\ getMetrics(analytics).passRate = Count(50)
    /\ getMetrics(analytics).failRate = Count(50)

\* the fields of the metrics that are numbers, and those that are collections
NumericFields ==
    {"totalStudents", "uniqueStudents", "averageScore", "averageAttendance",
     "passRate", "failRate"}

CollectionFields ==
    {"subjectStats", "semesterStats", "scoreDistribution",
     "attendanceDistribution", "topPerformers", "bottomPerformers"}

(***************************************************************************)
(* C10: after any sequence of setData calls, getMetrics() is what a new    *)
(* engine computes from the argument of the last call alone; when that     *)
(* argument is empty, every numeric field is the number 0 and every         *)
(* collection is there and empty.                                           *)
(***************************************************************************)
C10_MetricsOfLastDataOnly ==
    setDataCalls > 0 =>
        /\ getMetrics(analytics) = getMetrics(setData(NewAnalyticsEngine, setDataArg))
        /\ DOMAIN getMetrics(analytics) = NumericFields \cup CollectionFields
        /\ Len(setDataArg) > 0 =>
              getMetrics(analytics).totalStudents = Count(Len(setDataArg))
        /\ Len(setDataArg) = 0 =>
              /\ \A f \in NumericFields : getMetrics(analytics)[f] = Count(0)
              /\ \A f \in CollectionFields : DOMAIN getMetrics(analytics)[f] = {}

\* a second call, with an empty array, after a first one
C10_Witness ==
    /\ setDataCalls = 2
    /\ setDataArg = <<>>
    /\ getMetrics(analytics).totalStudents = Count(0)
    /\ getMetrics(analytics).topPerformers = <<>>

(***************************************************************************)
(* FilterEngine (js/filters.js)                                            *)
(***************************************************************************)
\* new FilterEngine()
NewFilterEngine ==
    [originalData |-> <<>>,
     filteredData |-> <<>>,
     currentFilters |-> [search |-> "", subject |-> "", semester |-> "",
                         riskLevel |-> ""],
     currentSort |-> [key |-> "name", direction |-> "asc"]]

\* the characters of the texts here in the order localeCompare ranks them
CollationChars == " -,.'\"0123456789abcdefghijklmnopqrstuvwxyz"

CollationRank(c) ==
    IF \E i \in 1..Len(CollationChars) : Ch(CollationChars, i) = c
    THEN CHOOSE i \in 1..Len(CollationChars) : Ch(CollationChars, i) = c
    ELSE 0

\* the first level of localeCompare, on lower-cased texts: letter by letter
RECURSIVE PrimaryCompare(_, _)
PrimaryCompare(a, b) ==
    IF a = "" /\ b = "" THEN 0
    ELSE IF a = "" THEN -1
    ELSE IF b = "" THEN 1
    ELSE IF CollationRank(Head(a)) # CollationRank(Head(b))
         THEN CollationRank(Head(a)) - CollationRank(Head(b))
    ELSE PrimaryCompare(Tail(a), Tail(b))

\* the last level, between texts with the same letters: lower case first
RECURSIVE CaseCompare(_, _)
CaseCompare(a, b) ==
    IF a = "" \/ b = "" THEN 0
    ELSE IF Head(a) = Head(b) THEN CaseCompare(Tail(a), Tail(b))
    ELSE IF IsLower(Head(a)) THEN -1
    ELSE 1

\* a.localeCompare(b): negative, zero or positive
LocaleCompare(a, b) ==
    IF PrimaryCompare(ToLowerCase(a), ToLowerCase(b)) # 0
    THEN PrimaryCompare(ToLowerCase(a), ToLowerCase(b))
    ELSE CaseCompare(a, b)

\* item.name && item.name.toLowerCase().includes(searchLower):
\* "true", "false", or "throw" when the value has no toLowerCase
searchField(v, searchLower) ==
    IF ~Truthy(v) THEN "false"
    ELSE IF v.t # "string" THEN "throw"
    ELSE IF Includes(ToLowerCase(v.s), searchLower) THEN "true"
    ELSE "false"

\* the search predicate of applyFilters, its || read left to right
searchItem(item, searchLower) ==
    IF searchField(Get(item, "name"), searchLower) # "false"
    THEN searchField(Get(item, "name"), searchLower)
    ELSE IF searchField(Get(item, "studentId"), searchLower) # "false"
    THEN searchField(Get(item, "studentId"), searchLower)
    ELSE searchField(Get(item, "subject"), searchLower)

\* does item pass the filters (the search predicate not throwing)
passesFilters(item, filters) ==
    /\ filters.search # "" => searchItem(item, filters.search) = "true"
    /\ filters.subject # "" => Get(item, "subject") = Str(filters.subject)
    /\ filters.semester # "" => Get(item, "semester") = Str(filters.semester)
    /\ filters.riskLevel # "" => Get(item, "riskLevel") = Str(filters.riskLevel)

\* does the search filter throw on data
searchThrows(data, filters) ==
    /\ filters.search # ""
    /\ \E i \in 1..Len(data) : searchItem(data[i], filters.search) = "throw"

\* v || d
OrElse(v, d) == IF Truthy(v) THEN v ELSE d

\* aVal (or bVal) of the comparator of sortData
sortValue(a, key) ==
    CASE key = "name" -> OrElse(Get(a, "name"), Str(""))
      [] key = "score" -> OrElse(Get(a, "marks"), Num(0))
      [] key = "attendance" -> OrElse(Get(a, "attendance"), Num(0))
      [] OTHER -> OrElse(Get(a, key), Str(""))

\* does the comparator throw when it reads a: (a.name || '').toLowerCase()
sortValueThrows(a, key) == key = "name" /\ sortValue(a, key).t # "string"

\* the text the comparator compares for a string value
sortText(v, key) == IF key = "name" THEN ToLowerCase(v.s) ELSE JsToString(v)

\* the number v converts to in aVal - bVal; NaN where it converts to none
sortNumber(v) ==
    CASE v.t = "number" -> v
      [] v = Str("") -> Num(0)
      [] OTHER -> NaN

\* the comparator of sortData in ascending direction
compareAscending(a, b, key) ==
    IF sortValue(a, key).t = "string"
    THEN LocaleCompare(sortText(sortValue(a, key), key), sortText(sortValue(b, key), key))
    ELSE IF sortNumber(sortValue(a, key)).t = "NaN" \/ sortNumber(sortValue(b, key)).t = "NaN"
    THEN 0
    ELSE sortNumber(sortValue(a, key)).n - sortNumber(sortValue(b, key)).n

\* the comparator of sortData
compareItems(a, b, sort) ==
    IF sort.direction = "asc" THEN compareAscending(a, b, sort.key)
    ELSE compareAscending(b, a, sort.key)

\* Array.prototype.sort with that comparator: a stable sort
RECURSIVE InsertItem(_, _, _)
InsertItem(x, sorted, sort) ==
    IF Len(sorted) = 0 THEN <<x>>
    ELSE IF compareItems(x, Head(sorted), sort) < 0 THEN <<x>> \o sorted
    ELSE <<Head(sorted)>> \o InsertItem(x, Tail(sorted), sort)

RECURSIVE SortItems(_, _)
SortItems(data, sort) ==
    IF Len(data) = 0 THEN <<>>
    ELSE InsertItem(data[Len(data)],
                    SortItems(SubSeq(data, 1, Len(data) - 1), sort), sort)

\* sortData throws when the comparator, called once there are two items,
\* reads a name that is not a string
sortThrows(data, sort) ==
    /\ Len(data) >= 2
    /\ \E i \in 1..Len(data) : sortValueThrows(data[i], sort.key)

sortData(data, sort) == SortItems(data, sort)

\* the array applyFilters hands to sortData
filterData(engine) ==
    SelectSeq(engine.originalData,
              LAMBDA item : passesFilters(item, engine.currentFilters))

\* applyFilters(): [threw, engine after]
applyFilters(engine) ==
    IF searchThrows(engine.originalData, engine.currentFilters)
       \/ sortThrows(filterData(engine), engine.currentSort)
    THEN [threw |-> TRUE, engine |-> engine]
    ELSE [threw |-> FALSE,
          engine |-> [engine EXCEPT
                        !.filteredData = sortData(filterData(engine),
                                                  engine.currentSort)]]

\* filterEngine.setData(data): [threw, engine after]
filterSetData(engine, data) ==
    applyFilters([engine EXCEPT !.originalData = data])

getFilteredData(engine) == engine.filteredData

(***************************************************************************)
(* utilities: downloadCSV                                                  *)
(***************************************************************************)
\* value.replace(/"/g, '""')
RECURSIVE DoubleQuotes(_)
DoubleQuotes(s) ==
    IF s = "" THEN ""
    ELSE (IF Head(s) = "\"" THEN "\"\"" ELSE Head(s)) \o DoubleQuotes(Tail(s))

\* the cell downloadCSV writes for a value
csvCell(value) ==
    IF value.t = "string" /\ (Includes(value.s, ",") \/ Includes(value.s, "\""))
    THEN "\"" \o DoubleQuotes(value.s) \o "\""
    ELSE IF value.t \in {"null", "undefined"} THEN ""
    ELSE JsToString(value)

\* the line downloadCSV writes for a row
csvLine(headers, row) ==
    Join([h \in 1..Len(headers) |-> csvCell(Get(row, headers[h]))], ",")

\* the csvContent of downloadCSV(data), headers being Object.keys(data[0])
downloadCSV(headers, data) ==
    Join(<<Join(headers, ",")>>
         \o [i \in 1..Len(data) |-> csvLine(headers, data[i])], "\n")

(***************************************************************************)
(* main.js: upload, export                                                 *)
(***************************************************************************)
\* the keys of an exportData row, in order
exportHeaders ==
    <<"Student ID", "Name", "Subject", "Marks", "Attendance", "Semester",
      "Risk Level", "Risk Score">>

\* the exportData row of a student
exportRow(s) ==
    [h \in {exportHeaders[i] : i \in 1..Len(exportHeaders)} |->
        CASE h = "Student ID" -> Get(s, "studentId")
          [] h = "Name" -> Get(s, "name")
          [] h = "Subject" -> Get(s, "subject")
          [] h = "Marks" -> Get(s, "marks")
          [] h = "Attendance" -> Get(s, "attendance")
          [] h = "Semester" -> Get(s, "semester")
          [] h = "Risk Level" -> Get(s, "riskLevel")
          [] h = "Risk Score" -> Get(s, "riskScore")]

\* handleExport(): the text it hands to the download
handleExport(filteredData) ==
    downloadCSV(exportHeaders,
                [i \in 1..Len(filteredData) |-> exportRow(filteredData[i])])

MaxExportRows == 2

ExportRows ==
    {"S1,Al,50,45,Math,1,Quiz",
     "S2,\"Lee, J\",20.5,95,Art,S2,Exam",
     "101,7up,85,60,Bio,2,Exam",
     "S4,''Bo,70,80,Art,1,Exam",
     ",Di,40,60,,,",
     "S6,bo,0,0,Math,1,Exam"}

ExportTexts ==
    {Join(<<FullHeader>> \o rows, "\n") :
        rows \in UNION {[1..n -> ExportRows] : n \in 1..MaxExportRows}}

InitExport ==
    /\ csv \in ExportTexts
    /\ stage = "idle"
    /\ clock = 1
    /\ outcome = "none"
    /\ parsed = <<>>
    /\ errors = <<>>
    /\ processedData = <<>>
    /\ analytics = NewAnalyticsEngine
    /\ setDataArg = <<>>
    /\ setDataCalls = 0
    /\ filterEngine = NewFilterEngine
    /\ csvContent = ""
    /\ reparsed = Null
    /\ student = Null
    /\ assessment = Null
    /\ answer = Null
    /\ filterCall = Null
    /\ uploads = [cycles |-> <<>>, timers |-> <<>>]
    /\ args = Null
    /\ tablePagination = Null

\* handleFileSelect up to the end of csvParser.parseFile(file), csv the text
\* of the file: a parse that throws, or returns nothing, ends the upload
ParseFile ==
    /\ stage = "idle"
    /\ \E t \in 1..MaxClock :
          LET r == parseCSV(csv, errors, t)
          IN  /\ clock' = t
              /\ outcome' = IF r.threw THEN "threw" ELSE "returned"
              /\ errors' = r.errors
              /\ parsed' = IF r.threw \/ Len(r.data) = 0 THEN parsed ELSE r.data
              /\ stage' = IF r.threw \/ Len(r.data) = 0 THEN "failed" ELSE "parsed"
    /\ UNCHANGED <<csv, student, assessment, processedData, analytics,
                   setDataArg, setDataCalls, filterEngine, csvContent,
                   reparsed, answer, filterCall, uploads, args,
                   tablePagination>>

\* handleFileSelect from processData(parsedData) on: a throw of
\* filterEngine.setData ends it in the catch
ProcessData ==
    /\ stage = "parsed"
    /\ processedData' = assessAllStudents(parsed)
    /\ analytics' = setData(analytics, assessAllStudents(parsed))
    /\ setDataArg' = assessAllStudents(parsed)
    /\ setDataCalls' = setDataCalls + 1
    /\ filterEngine' = filterSetData(filterEngine, assessAllStudents(parsed)).engine
    /\ stage' = IF filterSetData(filterEngine, assessAllStudents(parsed)).threw
                THEN "failed" ELSE "processed"
    /\ UNCHANGED <<csv, clock, outcome, parsed, errors, student, assessment,
                   csvContent, reparsed, answer, filterCall, uploads, args,
                   tablePagination>>

\* handleExport()
HandleExport ==
    /\ Len(processedData) > 0
    /\ Len(getFilteredData(filterEngine)) > 0
    /\ csvContent' = handleExport(getFilteredData(filterEngine))
    /\ UNCHANGED <<csv, stage, clock, outcome, parsed, errors, student,
                   assessment, processedData, analytics, setDataArg,
                   setDataCalls, filterEngine, reparsed, answer, filterCall,
                   uploads, args, tablePagination>>

\* csvParser.parseCSV(csvContent): the exported text parsed again
ParseExport ==
    /\ csvContent # ""
    /\ reparsed = Null
    /\ \E t \in 1..MaxClock :
          /\ reparsed' = parseCSV(csvContent, errors, t)
          /\ errors' = parseCSV(csvContent, errors, t).errors
          /\ clock' = t
    /\ UNCHANGED <<csv, stage, outcome, parsed, student, assessment,
                   processedData, analytics, setDataArg, setDataCalls,
                   filterEngine, csvContent, answer, filterCall, uploads,
                   args, tablePagination>>

NextExport == ParseFile \/ ProcessData \/ HandleExport \/ ParseExport

SpecExport == InitExport /\ [][NextExport]_vars

\* the fields of a record the round trip is to keep
RecordFields ==
    {"studentId", "name", "subject", "marks", "attendance", "semester",
     "assessmentType"}

(***************************************************************************)
(* C5: the records parsed from the exported text of a record set equal     *)
(* the exported records, one for one, in studentId, name, subject, marks,   *)
(* attendance, semester and assessmentType.                                 *)
(***************************************************************************)
C5_RoundTrip ==
    reparsed # Null =>
        /\ ~reparsed.threw
        /\ Len(reparsed.data) = Len(getFilteredData(filterEngine))
        /\ \A i \in 1..Len(reparsed.data) : \A f \in RecordFields :
              Get(reparsed.data[i], f) = Get(getFilteredData(filterEngine)[i], f)

(***************************************************************************)
(* AnalyticsEngine: the queries getTopPerformers, getBottomPerformers and  *)
(* getStudentTrend                                                         *)
(***************************************************************************)
\* parseInt of a string: leading white space, an optional sign, then the
\* digits; NaN when there are none
ParseIntStr(s) ==
    IF s # "" /\ Head(s) = "-" THEN Negate(DecimalValue(DigitRun(s, 2), ""))
    ELSE IF s # "" /\ Head(s) = "+" THEN DecimalValue(DigitRun(s, 2), "")
    ELSE DecimalValue(DigitRun(s, 1), "")

\* parseInt of any value: the argument is converted with JsToString first
ParseInt(v) == ParseIntStr(TrimStart(JsToString(v)))

\* parseInt(a.semester) || 0, in halves
semesterNumber(a) ==
    IF Truthy(ParseInt(Get(a, "semester"))) THEN ParseInt(Get(a, "semester")).n
    ELSE 0

\* Array.prototype.sort (stable) with (a, b) => semA - semB
RECURSIVE InsertBySemester(_, _)
InsertBySemester(x, sorted) ==
    IF Len(sorted) = 0 THEN <<x>>
    ELSE IF semesterNumber(x) - semesterNumber(Head(sorted)) < 0
         THEN <<x>> \o sorted
    ELSE <<Head(sorted)>> \o InsertBySemester(x, Tail(sorted))

RECURSIVE SortBySemester(_)
SortBySemester(data) ==
    IF Len(data) = 0 THEN <<>>
    ELSE InsertBySemester(data[Len(data)],
                          SortBySemester(SubSeq(data, 1, Len(data) - 1)))

\* Number.prototype.toFixed(1) of a number held in halves
ToFixed1(x) ==
    (IF x < 0 THEN "-" ELSE "")
    \o NatToStr((IF x < 0 THEN -x ELSE x) \div Scale)
    \o (IF x % Scale = 0 THEN ".0" ELSE ".5")

\* this.data.filter(d => d.studentId === studentId).sort(...)
studentRecords(data, studentId) ==
    SortBySemester(SelectSeq(data, LAMBDA d : Get(d, "studentId") = studentId))

\* lastScore - firstScore of the sorted records
scoreChange(studentData) ==
    OrZero(Get(studentData[Len(studentData)], "marks"))
    - OrZero(Get(studentData[1], "marks"))

\* the trend, were a change of 5 to count as up and of -5 as down
trendOfInclusive(change) ==
    IF change >= N(5) THEN "up"
    ELSE IF change <= -N(5) THEN "down"
    ELSE "stable"

\* the trend of a change
trendOf(change) ==
    IF change > N(5) THEN "up"
    ELSE IF change < -N(5) THEN "down"
    ELSE "stable"

getStudentTrend(data, studentId) ==
    IF Len(studentRecords(data, studentId)) < 2
    THEN [trend |-> "stable", change |-> Num(0)]
    ELSE [trend |-> trendOf(scoreChange(studentRecords(data, studentId))),
          change |-> Str(ToFixed1(scoreChange(studentRecords(data, studentId))))]

MaxQueryRows == 3

MaxLimit == 3

PerformerRows ==
    {"S1,Al,90,80,Math,1,Exam",
     "101,Cy,90,70,Math,2,Exam",
     "20,Bo,70,60,Art,S2,Exam",
     "S1,Al,50,80,Art,2,Exam",
     "S2,Di,50,90,Bio,1,Exam"}

TrendRows ==
    {"S1,Al,70,80,Math,S2,Exam",
     "S1,Al,75,80,Art,1,Exam",
     "S1,Al,70,80,Bio,2,Exam",
     "S1,Al,80.5,80,Bio,1.5,Exam"}

QueryTexts ==
    {Join(<<FullHeader>> \o rows, "\n") :
        rows \in UNION {[1..n -> PerformerRows] \cup [1..n -> TrendRows] :
                           n \in 1..MaxQueryRows}}

\* the ids getStudentTrend is asked about
TrendIds == {Str("S1"), Str("S2"), Num(N(101))}

\* an engine that has been given the assessed records of a parsed text
InitQuery ==
    /\ analytics \in {setData(NewAnalyticsEngine, assessedRecords(text)) :
                         text \in QueryTexts}
    /\ setDataArg = analytics.data
    /\ setDataCalls = 1
    /\ answer = Null
    /\ csv = ""
    /\ clock = 1
    /\ outcome = "none"
    /\ parsed = <<>>
    /\ errors = <<>>
    /\ student = Null
    /\ assessment = Null
    /\ stage = "idle"
    /\ processedData = <<>>
    /\ filterEngine = Null
    /\ csvContent = ""
    /\ reparsed = Null
    /\ filterCall = Null
    /\ uploads = [cycles |-> <<>>, timers |-> <<>>]
    /\ args = Null
    /\ tablePagination = Null

\* analyticsEngine.getTopPerformers(limit)
CallGetTopPerformers ==
    /\ answer = Null
    /\ \E limit \in 1..MaxLimit :
          answer' = [call |-> "getTopPerformers", limit |-> limit,
                     result |-> getTopPerformers(analytics.data, limit)]
    /\ UNCHANGED <<csv, clock, outcome, parsed, errors, student, assessment,
                   analytics, setDataArg, setDataCalls, stage, processedData,
                   filterEngine, csvContent, reparsed, filterCall, uploads,
                   args, tablePagination>>

\* analyticsEngine.getBottomPerformers(limit)
CallGetBottomPerformers ==
    /\ answer = Null
    /\ \E limit \in 1..MaxLimit :
          answer' = [call |-> "getBottomPerformers", limit |-> limit,
                     result |-> getBottomPerformers(analytics.data, limit)]
    /\ UNCHANGED <<csv, clock, outcome, parsed, errors, student, assessment,
                   analytics, setDataArg, setDataCalls, stage, processedData,
                   filterEngine, csvContent, reparsed, filterCall, uploads,
                   args, tablePagination>>

\* analyticsEngine.getStudentTrend(studentId)
CallGetStudentTrend ==
    /\ answer = Null
    /\ \E studentId \in TrendIds :
          answer' = [call |-> "getStudentTrend", studentId |-> studentId,
                     result |-> getStudentTrend(analytics.data, studentId)]
    /\ UNCHANGED <<csv, clock, outcome, parsed, errors, student, assessment,
                   analytics, setDataArg, setDataCalls, stage, processedData,
                   filterEngine, csvContent, reparsed, filterCall, uploads,
                   args, tablePagination>>

NextQuery ==
    CallGetTopPerformers \/ CallGetBottomPerformers \/ CallGetStudentTrend

SpecQuery == InitQuery /\ [][NextQuery]_vars

\* the distinct studentIds of data, in the order they are first met
EncounterIds(data) ==
    LET first == SelectSeq([i \in 1..Len(data) |-> i],
                    LAMBDA i : \A j \in 1..(i - 1) :
                        Get(data[j], "studentId") # Get(data[i], "studentId"))
    IN  [k \in 1..Len(first) |-> Get(data[first[k]], "studentId")]

\* the mean of the marks of the records of data with that studentId
MeanMarks(data, id) ==
    Mean(Column(SelectSeq(data, LAMBDA d : Get(d, "studentId") = id), "marks"))

\* how many students rank before student ids[k]: those with a better mean
\* (dir = -1: higher, dir = 1: lower) and those met earlier with the same mean
RankedBefore(data, ids, k, dir) ==
    Cardinality({j \in 1..Len(ids) :
        \/ dir * Compare(MeanMarks(data, ids[j]), MeanMarks(data, ids[k])) < 0
        \/ /\ Compare(MeanMarks(data, ids[j]), MeanMarks(data, ids[k])) = 0
           /\ j < k})

\* result is the first limit students of that ranking
IsRanking(result, data, ids, limit, dir) ==
    /\ Len(result) = Min(limit, Len(ids))
    /\ \A k \in 1..Len(ids) :
          RankedBefore(data, ids, k, dir) < limit =>
              /\ result[RankedBefore(data, ids, k, dir) + 1].studentId = ids[k]
              /\ result[RankedBefore(data, ids, k, dir) + 1].averageScore
                     = MeanMarks(data, ids[k])

(***************************************************************************)
(* C11: getTopPerformers(n) and getBottomPerformers(n) return the first    *)
(* min(n, number of distinct studentIds) students by descending, resp.     *)
(* ascending, mean of marks, students of equal mean in the order their      *)
(* studentId is first met in the record set, whatever the studentId.        *)
(***************************************************************************)
C11_PerformersInEncounterOrder ==
    (answer # Null /\ answer.call \in {"getTopPerformers", "getBottomPerformers"}) =>
        IsRanking(answer.result, analytics.data, EncounterIds(analytics.data),
                  answer.limit,
                  IF answer.call = "getTopPerformers" THEN -1 ELSE 1)

\* the records of data with that studentId, in record order
RecordsOf(data, studentId) ==
    SelectSeq(data, LAMBDA d : Get(d, "studentId") = studentId)

\* the earliest of the records with the least semester number
EarliestFirst(recs) ==
    CHOOSE i \in 1..Len(recs) :
        \A j \in 1..Len(recs) :
            \/ semesterNumber(recs[i]) < semesterNumber(recs[j])
            \/ semesterNumber(recs[i]) = semesterNumber(recs[j]) /\ i <= j

\* the latest of the records with the greatest semester number
LatestLast(recs) ==
    CHOOSE i \in 1..Len(recs) :
        \A j \in 1..Len(recs) :
            \/ semesterNumber(recs[i]) > semesterNumber(recs[j])
            \/ semesterNumber(recs[i]) = semesterNumber(recs[j]) /\ i >= j

\* marks of the last record minus marks of the first, in halves
MarksChange(recs) ==
    Get(recs[LatestLast(recs)], "marks").n - Get(recs[EarliestFirst(recs)], "marks").n

(***************************************************************************)
(* C12: getStudentTrend(studentId) puts that student's records in          *)
(* ascending order of integer-parsed semester (unparseable = 0, ties in     *)
(* record order) and compares the marks of the first and the last only: a   *)
(* change above 5 is up, below -5 is down, anything else (5 and -5          *)
(* included) is stable; with fewer than 2 records it is stable, change 0.   *)
(***************************************************************************)
C12_TrendOfFirstAndLast ==
    (answer # Null /\ answer.call = "getStudentTrend") =>
        \A recs \in {RecordsOf(analytics.data, answer.studentId)} :
            IF Len(recs) < 2
            THEN answer.result = [trend |-> "stable", change |-> Num(0)]
            ELSE /\ answer.result.trend = "up" <=> MarksChange(recs) > N(5)
                 /\ answer.result.trend = "down" <=> MarksChange(recs) < -N(5)
                 /\ answer.result.trend \in {"up", "down", "stable"}
                 /\ answer.result.change = Str(ToFixed1(MarksChange(recs)))

\* two records, the later semester 5 marks above the earlier one, whose
\* semester does not parse: stable
C12_Witness ==
    /\ answer # Null
    /\ answer.call = "getStudentTrend"
    /\ answer.studentId = Str("S1")
    /\ Len(analytics.data) = 2
    /\ Get(analytics.data[1], "semester") = Num(N(1))
    /\ Get(analytics.data[1], "marks") = Num(N(75))
    /\ Get(analytics.data[2], "semester") = Str("S2")
    /\ Get(analytics.data[2], "marks") = Num(N(70))
    /\ answer.result = [trend |-> "stable", change |-> Str("5.0")]

(***************************************************************************)
(* FilterEngine: the setters.  Each gives [threw, engine after]; a setter  *)
(* assigns its piece of the query state before applyFilters runs, so the   *)
(* assignment stays when applyFilters throws.                              *)
(***************************************************************************)
setSearch(engine, query) ==
    applyFilters([engine EXCEPT !.currentFilters.search = Trim(ToLowerCase(query))])

\* setSubjectFilter, were it to reset the search as well
setSubjectFilterResetting(engine, subject) ==
    applyFilters([engine EXCEPT !.currentFilters.subject = subject,
                                !.currentFilters.search = ""])

setSubjectFilter(engine, subject) ==
    applyFilters([engine EXCEPT !.currentFilters.subject = subject])

setSemesterFilter(engine, semester) ==
    applyFilters([engine EXCEPT !.currentFilters.semester = semester])

setRiskFilter(engine, riskLevel) ==
    applyFilters([engine EXCEPT !.currentFilters.riskLevel = riskLevel])

\* const [key, direction] = sortKey.split('-'); a missing direction is
\* undefined, which sortData tells from 'asc' like any other text
setSort(engine, sortKey) ==
    applyFilters([engine EXCEPT !.currentSort =
        [key |-> Split(sortKey, "-")[1],
         direction |-> IF Len(Split(sortKey, "-")) >= 2
                       THEN Split(sortKey, "-")[2] ELSE "undefined"]])

clearFilters(engine) ==
    applyFilters([engine EXCEPT
        !.currentFilters = [search |-> "", subject |-> "", semester |-> "",
                            riskLevel |-> ""],
        !.currentSort = [key |-> "name", direction |-> "asc"]])

\* the rows of the texts the filter engine is fed: Al and cy are plain
\* records, 101 is a studentId and 7up a name that cleanValue makes a number
FilterRowLists ==
    {<<"S1,Al,25,45,Math,1,Quiz", "S3,cy,85,95,Math,S2,Exam">>,
     <<"S1,Al,25,45,Math,1,Quiz", "101,al b,85,95,Art,S2,Exam">>,
     <<"S1,Al,25,45,Math,1,Quiz", "S4,7up,50,70,Art,S2,Exam">>,
     <<"S1,Al,25,45,Math,1,Quiz", "S5,al,25,45,Math,S2,Exam">>}

FilterTexts == {Join(<<FullHeader>> \o rows, "\n") : rows \in FilterRowLists}

\* what processData and handleClearFile hand to filterEngine.setData
FilterDataSets == {assessedRecords(text) : text \in FilterTexts} \cup {<<>>}

\* what the controls of the page hand to the setters
SearchArgs == {"", " AL ", "math"}

SubjectArgs == {"", "Math"}

SemesterArgs == {"", "S2", "1"}

RiskArgs == {"", "high"}

SortArgs == {"name-asc", "score-desc"}

InitFilter ==
    /\ filterEngine = NewFilterEngine
    /\ filterCall = Null
    /\ csv = ""
    /\ clock = 1
    /\ outcome = "none"
    /\ parsed = <<>>
    /\ errors = <<>>
    /\ student = Null
    /\ assessment = Null
    /\ analytics = Null
    /\ setDataArg = <<>>
    /\ setDataCalls = 0
    /\ stage = "idle"
    /\ processedData = <<>>
    /\ csvContent = ""
    /\ reparsed = Null
    /\ answer = Null
    /\ uploads = [cycles |-> <<>>, timers |-> <<>>]
    /\ args = Null
    /\ tablePagination = Null

\* filterEngine.setData(data)
CallFilterSetData ==
    /\ \E data \in FilterDataSets :
        /\ filterEngine' = filterSetData(filterEngine, data).engine
        /\ filterCall' = [op |-> "setData", threw |-> filterSetData(filterEngine, data).threw]
    /\ UNCHANGED <<csv, clock, outcome, parsed, errors, student, assessment,
                   analytics, setDataArg, setDataCalls, stage, processedData,
                   csvContent, reparsed, answer, uploads, args,
                   tablePagination>>

\* filterEngine.setSearch(query)
CallSetSearch ==
    /\ \E query \in SearchArgs :
        /\ filterEngine' = setSearch(filterEngine, query).engine
        /\ filterCall' = [op |-> "setSearch", threw |-> setSearch(filterEngine, query).threw]
    /\ UNCHANGED <<csv, clock, outcome, parsed, errors, student, assessment,
                   analytics, setDataArg, setDataCalls, stage, processedData,
                   csvContent, reparsed, answer, uploads, args,
                   tablePagination>>

\* filterEngine.setSubjectFilter(subject)
CallSetSubjectFilter ==
    /\ \E subject \in SubjectArgs :
        /\ filterEngine' = setSubjectFilter(filterEngine, subject).engine
        /\ filterCall' = [op |-> "setSubjectFilter", threw |-> setSubjectFilter(filterEngine, subject).threw]
    /\ UNCHANGED <<csv, clock, outcome, parsed, errors, student, assessment,
                   analytics, setDataArg, setDataCalls, stage, processedData,
                   csvContent, reparsed, answer, uploads, args,
                   tablePagination>>

\* filterEngine.setSemesterFilter(semester)
CallSetSemesterFilter ==
    /\ \E semester \in SemesterArgs :
        /\ filterEngine' = setSemesterFilter(filterEngine, semester).engine
        /\ filterCall' = [op |-> "setSemesterFilter", threw |-> setSemesterFilter(filterEngine, semester).threw]
    /\ UNCHANGED <<csv, clock, outcome, parsed, errors, student, assessment,
                   analytics, setDataArg, setDataCalls, stage, processedData,
                   csvContent, reparsed, answer, uploads, args,
                   tablePagination>>

\* filterEngine.setRiskFilter(riskLevel)
CallSetRiskFilter ==
    /\ \E riskLevel \in RiskArgs :
        /\ filterEngine' = setRiskFilter(filterEngine, riskLevel).engine
        /\ filterCall' = [op |-> "setRiskFilter", threw |-> setRiskFilter(filterEngine, riskLevel).threw]
    /\ UNCHANGED <<csv, clock, outcome, parsed, errors, student, assessment,
                   analytics, setDataArg, setDataCalls, stage, processedData,
                   csvContent, reparsed, answer, uploads, args,
                   tablePagination>>

\* filterEngine.setSort(sortKey)
CallSetSort ==
    /\ \E sortKey \in SortArgs :
        /\ filterEngine' = setSort(filterEngine, sortKey).engine
        /\ filterCall' = [op |-> "setSort", threw |-> setSort(filterEngine, sortKey).threw]
    /\ UNCHANGED <<csv, clock, outcome, parsed, errors, student, assessment,
                   analytics, setDataArg, setDataCalls, stage, processedData,
                   csvContent, reparsed, answer, uploads, args,
                   tablePagination>>

\* filterEngine.clearFilters()
CallClearFilters ==
    /\ filterEngine' = clearFilters(filterEngine).engine
    /\ filterCall' = [op |-> "clearFilters", threw |-> clearFilters(filterEngine).threw]
    /\ UNCHANGED <<csv, clock, outcome, parsed, errors, student, assessment,
                   analytics, setDataArg, setDataCalls, stage, processedData,
                   csvContent, reparsed, answer, uploads, args,
                   tablePagination>>

NextFilter ==
    \/ CallFilterSetData
    \/ CallSetSearch
    \/ CallSetSubjectFilter
    \/ CallSetSemesterFilter
    \/ CallSetRiskFilter
    \/ CallSetSort
    \/ CallClearFilters

SpecFilter == InitFilter /\ [][NextFilter]_vars

(***************************************************************************)
(* C13: the filtered view is the conjunction of the active predicates      *)
(***************************************************************************)

\* how often x occurs in the sequence s
Occurrences(x, s) == Cardinality({i \in 1..Len(s) : s[i] = x})

\* the same records, each as often, in whatever order
SameRecords(a, b) ==
    /\ Len(a) = Len(b)
    /\ \A i \in 1..Len(a) : Occurrences(a[i], a) = Occurrences(a[i], b)

\* the field of a record as text, lower-cased
FieldText(item, field) == ToLowerCase(JsToString(Get(item, field)))

\* the search predicate: the query is a substring of the name, the
\* studentId or the subject, compared case-insensitively
SearchMatches(item, query) ==
    \/ query = ""
    \/ \E field \in {"name", "studentId", "subject"} :
          /\ Truthy(Get(item, field))
          /\ Includes(FieldText(item, field), query)

\* an empty filter value passes every record, another one the records equal
\* to it in that field
SelectMatches(item, field, value) ==
    value = "" \/ Get(item, field) = Str(value)

\* every active predicate at once
SatisfiesAll(item, filters) ==
    /\ SearchMatches(item, filters.search)
    /\ SelectMatches(item, "subject", filters.subject)
    /\ SelectMatches(item, "semester", filters.semester)
    /\ SelectMatches(item, "riskLevel", filters.riskLevel)

\* C13: after every call, no applying of the filters has failed and
\* getFilteredData() holds exactly the records of the base set that satisfy
\* every active predicate.
C13_ViewIsConjunctionOfPredicates ==
    filterCall # Null =>
        /\ ~filterCall.threw
        /\ SameRecords(getFilteredData(filterEngine),
                       SelectSeq(filterEngine.originalData,
                                 LAMBDA item :
                                     SatisfiesAll(item, filterEngine.currentFilters)))

\* the same with the calls that threw and the views they left set aside
C13_ViewWhenNothingThrew ==
    (filterCall # Null /\ ~filterCall.threw) =>
        SameRecords(getFilteredData(filterEngine),
                    SelectSeq(filterEngine.originalData,
                              LAMBDA item :
                                  SatisfiesAll(item, filterEngine.currentFilters)))

(***************************************************************************)
(* C14: the filter setters commute                                         *)
(***************************************************************************)

\* the four filter setters, named by the field of currentFilters they set
FilterSetters == {"search", "subject", "semester", "riskLevel"}

\* the values the controls hand to a setter
SetterArgs(setter) ==
    CASE setter = "search" -> SearchArgs
      [] setter = "subject" -> SubjectArgs
      [] setter = "semester" -> SemesterArgs
      [] setter = "riskLevel" -> RiskArgs

\* the call of the setter of that name: [threw, engine after]
callSetter(engine, setter, value) ==
    CASE setter = "search" -> setSearch(engine, value)
      [] setter = "subject" -> setSubjectFilter(engine, value)
      [] setter = "semester" -> setSemesterFilter(engine, value)
      [] setter = "riskLevel" -> setRiskFilter(engine, value)

\* getFilteredData() after the first setter and then the second were called
ViewAfterBoth(engine, first, v1, second, v2) ==
    getFilteredData(
        callSetter(callSetter(engine, first, v1).engine, second, v2).engine)

\* does one of the two calls throw, in that order
EitherThrows(engine, first, v1, second, v2) ==
    \/ callSetter(engine, first, v1).threw
    \/ callSetter(callSetter(engine, first, v1).engine, second, v2).threw

\* C14: whatever the record set and the query state, two different filter
\* setters called in either order leave the same getFilteredData(), record
\* by record.
C14_FilterSettersCommute ==
    \A first \in FilterSetters : \A second \in FilterSetters \ {first} :
        \A v1 \in SetterArgs(first) : \A v2 \in SetterArgs(second) :
            ViewAfterBoth(filterEngine, first, v1, second, v2)
                = ViewAfterBoth(filterEngine, second, v2, first, v1)

\* the same, for the pairs of calls none of which throws in either order
C14_CommuteWhenNothingThrows ==
    \A first \in FilterSetters : \A second \in FilterSetters \ {first} :
        \A v1 \in SetterArgs(first) : \A v2 \in SetterArgs(second) :
            (/\ ~EitherThrows(filterEngine, first, v1, second, v2)
             /\ ~EitherThrows(filterEngine, second, v2, first, v1))
            => ViewAfterBoth(filterEngine, first, v1, second, v2)
                   = ViewAfterBoth(filterEngine, second, v2, first, v1)

(***************************************************************************)
(* C15: clearFilters restores the whole base set                           *)
(***************************************************************************)

\* the query state a new engine has
DefaultQuery(engine) ==
    /\ engine.currentFilters = NewFilterEngine.currentFilters
    /\ engine.currentSort = NewFilterEngine.currentSort

\* the records of view follow each other by name, upper and lower case alike
ByNameAscending(view) ==
    \A i \in 1..(Len(view) - 1) :
        PrimaryCompare(FieldText(view[i], "name"),
                       FieldText(view[i + 1], "name")) <= 0

\* C15: after clearFilters() the query state is search '', subject '',
\* semester '', riskLevel '' and sort by name ascending, and
\* getFilteredData() holds every record of the base set exactly once,
\* ordered by name ascending.
C15_ClearRestoresBaseSet ==
    (filterCall # Null /\ filterCall.op = "clearFilters") =>
        /\ DefaultQuery(filterEngine)
        /\ SameRecords(getFilteredData(filterEngine), filterEngine.originalData)
        /\ ByNameAscending(getFilteredData(filterEngine))

\* the same for the calls of clearFilters() that return
C15_ClearThatReturns ==
    (filterCall # Null /\ filterCall.op = "clearFilters" /\ ~filterCall.threw) =>
        /\ DefaultQuery(filterEngine)
        /\ SameRecords(getFilteredData(filterEngine), filterEngine.originalData)
        /\ ByNameAscending(getFilteredData(filterEngine))

(***************************************************************************)
(* C16: what each call of the filter engine changes                        *)
(***************************************************************************)

\* the field of currentFilters a setter sets
OwnFilter(op) ==
    CASE op = "setSearch" -> "search"
      [] op = "setSubjectFilter" -> "subject"
      [] op = "setSemesterFilter" -> "semester"
      [] op = "setRiskFilter" -> "riskLevel"

\* view is in the order of the comparator of sort
InSortOrder(view, sort) ==
    \A i \in 1..(Len(view) - 1) : compareItems(view[i], view[i + 1], sort) <= 0

\* getFilteredData() is the filter-then-sort of the base set under the
\* whole query state
ViewIsDerived(engine) ==
    /\ SameRecords(getFilteredData(engine),
                   SelectSeq(engine.originalData,
                             LAMBDA item : SatisfiesAll(item, engine.currentFilters)))
    /\ InSortOrder(getFilteredData(engine), engine.currentSort)

\* what one call of setData or of a setter does to the engine
CallKeepsFrame ==
    /\ filterCall'.op \in {"setSearch", "setSubjectFilter", "setSemesterFilter",
                           "setRiskFilter"} =>
          /\ filterEngine'.originalData = filterEngine.originalData
          /\ filterEngine'.currentSort = filterEngine.currentSort
          /\ \A field \in DOMAIN filterEngine.currentFilters \ {OwnFilter(filterCall'.op)} :
                filterEngine'.currentFilters[field] = filterEngine.currentFilters[field]
    /\ filterCall'.op = "setSort" =>
          /\ filterEngine'.originalData = filterEngine.originalData
          /\ filterEngine'.currentFilters = filterEngine.currentFilters
    /\ filterCall'.op = "setData" =>
          /\ filterEngine'.currentFilters = filterEngine.currentFilters
          /\ filterEngine'.currentSort = filterEngine.currentSort
    /\ (filterCall'.op # "clearFilters" /\ ~filterCall'.threw) =>
          ViewIsDerived(filterEngine')

\* C16: a setter changes its own piece of the query state and neither the
\* base set nor the other pieces, setData changes the base set and keeps the
\* query state, and after each of these calls returns getFilteredData() is
\* the filter-then-sort of the base set under the whole query state.
C16_CallsChangeOwnPieceOnly == [][CallKeepsFrame]_vars

\* setSubjectFilter has returned with a search and a sort set before it, and
\* the view is one of the two records of the base set
C16_Witness ==
    /\ filterCall # Null
    /\ filterCall.op = "setSubjectFilter"
    /\ ~filterCall.threw
    /\ filterEngine.currentFilters.subject = "Math"
    /\ filterEngine.currentFilters.search = "al"
    /\ filterEngine.currentSort.key = "score"
    /\ Len(filterEngine.originalData) = 2
    /\ Len(getFilteredData(filterEngine)) = 1

(***************************************************************************)
(* The upload cycle (handleFileSelect, processData, handleClearFile in     *)
(* js/main.js; parseFile in js/csvParser.js)                               *)
(*                                                                         *)
(* handleFileSelect is an async function: it runs up to its first await,   *)
(* and each later piece runs when the timer or the FileReader it waits on  *)
(* completes.  Every piece is one action; between two pieces any other     *)
(* handler can run.  A cycle is [file, pc, why, parse, data, ran, during]: *)
(* pc is where it waits ("delay1": the 300 ms before parseFile, "reading": *)
(* the FileReader, "delay2": the 300 ms before processData, "delay3": the  *)
(* 200 ms before the success toast, "done", "failed"), why is how it       *)
(* failed, parse how its parseCSV call ended, data what parseFile resolved *)
(* with, ran whether it has called processData, and during the cycles that *)
(* were still in flight when it started.  uploads.timers lists the cycles  *)
(* that wait on a timer, in the order the timers were set.                 *)
(***************************************************************************)
\* file.size > 10 * 1024 * 1024
MaxFileSize == 10 * 1024 * 1024

\* file.name.endsWith(suffix)
EndsWith(s, suffix) ==
    /\ Len(s) >= Len(suffix)
    /\ SubSeq(s, Len(s) - Len(suffix) + 1, Len(s)) = suffix

\* validateCSVFile(file): FALSE after its error toast
validateCSVFile(file) ==
    /\ file # Null
    /\ EndsWith(file.name, ".csv")
    /\ file.size # 0
    /\ file.size <= MaxFileSize

\* reader.onload, were it to resolve with whatever parseCSV left
readerOnloadResolving(r) == [rejected |-> FALSE, data |-> r.data]

\* reader.onload of parseFile after parseCSV ended as r: the promise is
\* rejected when parseCSV threw or returned nothing, resolved otherwise
readerOnload(r) ==
    IF r.threw \/ Len(r.data) = 0
    THEN [rejected |-> TRUE, data |-> <<>>]
    ELSE [rejected |-> FALSE, data |-> r.data]

\* setTimeout(resolve, delay) of the await a cycle is at
timerDelay(cycle) == IF cycle.pc = "delay3" THEN 200 ELSE 300

\* the k-th timer set can be the next to fire: no timer set before it is
\* due sooner or at the same time
canFire(u, k) ==
    \A j \in 1..(k - 1) :
        timerDelay(u.cycles[u.timers[j]]) > timerDelay(u.cycles[u.timers[k]])

\* uploads after cycle i moved on to c; it waits on a new timer when timed
moveCycle(u, i, c, timed) ==
    [u EXCEPT !.cycles = [u.cycles EXCEPT ![i] = c],
              !.timers = SelectSeq(u.timers, LAMBDA j : j # i)
                         \o (IF timed THEN <<i>> ELSE <<>>)]

\* the cycles that have neither ended nor failed
inFlight(u) ==
    {i \in 1..Len(u.cycles) : u.cycles[i].pc \notin {"done", "failed"}}

MaxUploads == 2

\* the files the user picks: two that parse (the second with a studentId
\* the parser makes a number), one whose only row is short, and one that is not
\* a CSV file by its name
UploadFiles ==
    {[name |-> "a.csv", size |-> 70, text |-> FullHeader \o "\nS1,Al,25,45,Math,1,Quiz"],
     [name |-> "b.csv", size |-> 71, text |-> FullHeader \o "\n101,cy,85,95,Art,S2,Exam"],
     [name |-> "c.csv", size |-> 52, text |-> FullHeader \o "\nS1,Al"],
     [name |-> "d.txt", size |-> 70, text |-> FullHeader \o "\nS1,Al,25,45,Math,1,Quiz"]}

\* what the user types into the search box
UploadQueries == {"al"}

InitUpload ==
    /\ uploads = [cycles |-> <<>>, timers |-> <<>>, cleared |-> {}]
    /\ processedData = <<>>
    /\ analytics = NewAnalyticsEngine
    /\ filterEngine = NewFilterEngine
    /\ parsed = <<>>
    /\ errors = <<>>
    /\ csv = ""
    /\ clock = 1
    /\ outcome = "none"
    /\ setDataArg = <<>>
    /\ setDataCalls = 0
    /\ filterCall = Null
    /\ stage = "idle"
    /\ student = Null
    /\ assessment = Null
    /\ csvContent = ""
    /\ reparsed = Null
    /\ answer = Null
    /\ args = Null
    /\ tablePagination = Null

\* handleFileSelect(file) up to its first await: a file validateCSVFile
\* refuses ends the cycle at once
HandleFileSelect ==
    /\ Len(uploads.cycles) < MaxUploads
    /\ \E file \in UploadFiles :
          uploads' =
              moveCycle([uploads EXCEPT !.cycles = Append(@, Null), !.cleared = {}],
                        Len(uploads.cycles) + 1,
                        [file |-> file,
                         pc |-> IF validateCSVFile(file) THEN "delay1" ELSE "failed",
                         why |-> IF validateCSVFile(file) THEN "" ELSE "rejected",
                         parse |-> "none", data |-> <<>>, ran |-> FALSE,
                         during |-> inFlight(uploads)],
                        validateCSVFile(file))
    /\ UNCHANGED <<csv, clock, outcome, parsed, errors, student, assessment,
                   analytics, setDataArg, setDataCalls, stage, processedData,
                   filterEngine, csvContent, reparsed, answer, filterCall,
                   args, tablePagination>>

\* the first timer of a cycle fires: csvParser.parseFile(file) validates the
\* file again and starts the FileReader
ParseFileStarts ==
    /\ \E k \in 1..Len(uploads.timers) :
          /\ canFire(uploads, k)
          /\ uploads.cycles[uploads.timers[k]].pc = "delay1"
          /\ uploads' =
                moveCycle(uploads, uploads.timers[k],
                          [uploads.cycles[uploads.timers[k]] EXCEPT
                             !.pc = IF validateCSVFile(uploads.cycles[uploads.timers[k]].file)
                                    THEN "reading" ELSE "failed",
                             !.why = IF validateCSVFile(uploads.cycles[uploads.timers[k]].file)
                                     THEN "" ELSE "rejected"],
                          FALSE)
    /\ UNCHANGED <<csv, clock, outcome, parsed, errors, student, assessment,
                   analytics, setDataArg, setDataCalls, stage, processedData,
                   filterEngine, csvContent, reparsed, answer, filterCall,
                   args, tablePagination>>

\* reader.onload of a cycle: parseCSV runs on the text of the file, and the
\* cycle goes on to its second timer or ends in the catch.  No row of
\* UploadFiles lacks its id, so Date.now() is not read and the clock stays.
ReaderOnload ==
    /\ \E i \in 1..Len(uploads.cycles) :
          /\ uploads.cycles[i].pc = "reading"
          /\ \E r \in {parseCSV(uploads.cycles[i].file.text, errors, clock)} :
                /\ csv' = uploads.cycles[i].file.text
                /\ outcome' = IF r.threw THEN "threw" ELSE "returned"
                /\ errors' = r.errors
                /\ parsed' = IF readerOnload(r).rejected THEN parsed ELSE r.data
                /\ uploads' =
                      moveCycle(uploads, i,
                                [uploads.cycles[i] EXCEPT
                                   !.pc = IF readerOnload(r).rejected
                                          THEN "failed" ELSE "delay2",
                                   !.why = IF readerOnload(r).rejected
                                           THEN "parse" ELSE "",
                                   !.parse = IF r.threw THEN "threw" ELSE "returned",
                                   !.data = readerOnload(r).data],
                                ~readerOnload(r).rejected)
    /\ UNCHANGED <<clock, student, assessment, analytics, setDataArg,
                   setDataCalls, stage, processedData, filterEngine,
                   csvContent, reparsed, answer, filterCall, args,
                   tablePagination>>

\* reader.onerror of a cycle: the file could not be read
ReaderOnerror ==
    /\ \E i \in 1..Len(uploads.cycles) :
          /\ uploads.cycles[i].pc = "reading"
          /\ uploads' = moveCycle(uploads, i,
                                  [uploads.cycles[i] EXCEPT !.pc = "failed",
                                                            !.why = "read"],
                                  FALSE)
    /\ UNCHANGED <<csv, clock, outcome, parsed, errors, student, assessment,
                   analytics, setDataArg, setDataCalls, stage, processedData,
                   filterEngine, csvContent, reparsed, answer, filterCall,
                   args, tablePagination>>

\* the second timer of a cycle fires: processData(parsedData); a throw of
\* filterEngine.setData ends the cycle in the catch
ProcessParsedData ==
    /\ \E k \in 1..Len(uploads.timers) :
          /\ canFire(uploads, k)
          /\ uploads.cycles[uploads.timers[k]].pc = "delay2"
          /\ \E data \in {assessAllStudents(uploads.cycles[uploads.timers[k]].data)} :
             \E f \in {filterSetData(filterEngine, data)} :
                /\ processedData' = data
                /\ analytics' = setData(analytics, data)
                /\ setDataArg' = data
                /\ setDataCalls' = setDataCalls + 1
                /\ filterEngine' = f.engine
                /\ filterCall' = [op |-> "setData", threw |-> f.threw]
                /\ uploads' =
                      moveCycle(uploads, uploads.timers[k],
                                [uploads.cycles[uploads.timers[k]] EXCEPT
                                   !.pc = IF f.threw THEN "failed" ELSE "delay3",
                                   !.why = IF f.threw THEN "process" ELSE "",
                                   !.ran = TRUE],
                                ~f.threw)
    /\ UNCHANGED <<csv, clock, outcome, parsed, errors, student, assessment,
                   stage, csvContent, reparsed, answer, args,
                   tablePagination>>

\* the last timer of a cycle fires: the success toast, and hideLoading
FinishUpload ==
    /\ \E k \in 1..Len(uploads.timers) :
          /\ canFire(uploads, k)
          /\ uploads.cycles[uploads.timers[k]].pc = "delay3"
          /\ uploads' = moveCycle(uploads, uploads.timers[k],
                                  [uploads.cycles[uploads.timers[k]] EXCEPT !.pc = "done"],
                                  FALSE)
    /\ UNCHANGED <<csv, clock, outcome, parsed, errors, student, assessment,
                   analytics, setDataArg, setDataCalls, stage, processedData,
                   filterEngine, csvContent, reparsed, answer, filterCall,
                   args, tablePagination>>

\* handleClearFile(), the user clearing what an upload has loaded
HandleClearFile ==
    /\ Len(processedData) > 0
    /\ processedData' = <<>>
    /\ parsed' = <<>>
    /\ errors' = <<>>
    /\ analytics' = setData(analytics, <<>>)
    /\ setDataArg' = <<>>
    /\ setDataCalls' = setDataCalls + 1
    /\ filterEngine' = filterSetData(filterEngine, <<>>).engine
    /\ filterCall' = [op |-> "setData", threw |-> filterSetData(filterEngine, <<>>).threw]
    /\ uploads' = [uploads EXCEPT !.cleared = inFlight(uploads)]
    /\ UNCHANGED <<csv, clock, outcome, student, assessment, stage,
                   csvContent, reparsed, answer, args, tablePagination>>

\* the listener of the search box: filterEngine.setSearch(e.target.value),
\* the user searching what an upload has loaded
HandleSearchInput ==
    /\ Len(processedData) > 0
    /\ \E query \in UploadQueries :
          /\ filterEngine' = setSearch(filterEngine, query).engine
          /\ filterCall' = [op |-> "setSearch", threw |-> setSearch(filterEngine, query).threw]
    /\ UNCHANGED <<csv, clock, outcome, parsed, errors, student, assessment,
                   analytics, setDataArg, setDataCalls, stage, processedData,
                   csvContent, reparsed, answer, uploads, args,
                   tablePagination>>

NextUpload ==
    \/ HandleFileSelect
    \/ ParseFileStarts
    \/ ReaderOnload
    \/ ReaderOnerror
    \/ ProcessParsedData
    \/ FinishUpload
    \/ HandleClearFile
    \/ HandleSearchInput

SpecUpload == InitUpload /\ [][NextUpload]_vars

(***************************************************************************)
(* C17: a failed upload leaves what was loaded                             *)
(***************************************************************************)

\* the cycle is the upload of a file that was rejected, could not be read,
\* or could not be parsed
FailedUpload(cycle) ==
    \/ ~validateCSVFile(cycle.file)
    \/ cycle.why = "read"
    \/ cycle.parse = "threw"

\* the cycles that the step started or moved on
MovedCycles ==
    {i \in 1..Len(uploads'.cycles) :
        i > Len(uploads.cycles) \/ uploads'.cycles[i] # uploads.cycles[i]}

\* what a step of an upload that fails leaves as it was
FailedUploadKeepsState ==
    /\ \A i \in 1..Len(uploads'.cycles) :
          FailedUpload(uploads'.cycles[i]) => ~uploads'.cycles[i].ran
    /\ \A i \in MovedCycles :
          FailedUpload(uploads'.cycles[i]) =>
              UNCHANGED <<parsed, processedData, analytics, filterEngine,
                          args, tablePagination>>
    /\ \A i \in MovedCycles :
          ~uploads'.cycles[i].ran =>
              UNCHANGED <<processedData, analytics, filterEngine, args,
                          tablePagination>>

\* C17: the upload of a file that is rejected, cannot be read or cannot be
\* parsed never gets to processData, and none of its steps changes the
\* record set, the Metrics, or the base set and the view of the filter
\* engine: they are left as they were before it.
C17_FailedUploadKeepsState == [][FailedUploadKeepsState]_vars

\* an upload has loaded its records and a later one has failed in parseCSV,
\* the records of the first still being the ones loaded
C17_Witness ==
    /\ Len(uploads.cycles) = 2
    /\ uploads.cycles[1].pc = "done"
    /\ uploads.cycles[2].pc = "failed"
    /\ uploads.cycles[2].why = "parse"
    /\ Len(processedData) > 0
    /\ processedData = assessAllStudents(uploads.cycles[1].data)
    /\ analytics.data = processedData
    /\ getFilteredData(filterEngine) = processedData

(***************************************************************************)
(* C18: the engines hold the same record set                               *)
(***************************************************************************)

\* the record set, the analytics engine and the filter engine agree, the
\* Metrics and the view being the ones computed from the record set
EnginesAgree ==
    /\ analytics.data = processedData
    /\ filterEngine.originalData = processedData
    /\ setDataCalls > 0 =>
          getMetrics(analytics) = getMetrics(setData(NewAnalyticsEngine, processedData))
    /\ ViewIsDerived(filterEngine)

\* C18: between any two steps of the handlers (the pieces of an upload, a
\* clear, a search), processedData, the data of the analytics engine and the
\* base set of the filter engine are the same record set, and the Metrics
\* and the filtered view are the ones computed from it.
C18_EnginesAgree == EnginesAgree

\* the same while the last call of the filter engine has returned
C18_AgreeWhenLastCallReturned ==
    (filterCall = Null \/ ~filterCall.threw) => EnginesAgree

(***************************************************************************)
(* C19: two uploads in flight at once                                      *)
(***************************************************************************)

\* cycle i was still in flight when the later cycle j started, and both
\* were parsed
OverlappingUploads(i, j) ==
    /\ i \in uploads.cycles[j].during
    /\ uploads.cycles[i].parse = "returned"
    /\ uploads.cycles[j].parse = "returned"

\* the record set, the Metrics and the view are those of the records data
\* (the view, when the last call of the filter engine has returned)
StateIsOf(data) ==
    /\ processedData = assessAllStudents(data)
    /\ analytics = setData(NewAnalyticsEngine, processedData)
    /\ filterEngine.originalData = processedData
    /\ ~filterCall.threw => ViewIsDerived(filterEngine)

\* C19: of two uploads in flight at once that both parse, the one started
\* first is the first to call processData and the first to finish, and when
\* both have finished (nothing having been cleared since) the record set,
\* the Metrics and the view are those of the one started later.
C19_LaterUploadWins ==
    \A j \in 1..Len(uploads.cycles) : \A i \in 1..(j - 1) :
        OverlappingUploads(i, j) =>
            /\ uploads.cycles[j].ran => uploads.cycles[i].ran
            /\ uploads.cycles[j].pc = "done" => uploads.cycles[i].pc = "done"
            /\ (/\ uploads.cycles[i].pc = "done"
                /\ uploads.cycles[j].pc = "done"
                /\ \A k \in (j + 1)..Len(uploads.cycles) : ~uploads.cycles[k].ran
                /\ Len(processedData) > 0)
               => StateIsOf(uploads.cycles[j].data)

\* the same for the uploads of which the second is started once the first
\* has finished
C19_UploadsInTurn ==
    \A j \in 1..Len(uploads.cycles) : \A i \in 1..(j - 1) :
        (/\ uploads.cycles[j].during = {}
         /\ uploads.cycles[i].pc = "done"
         /\ uploads.cycles[j].pc = "done"
         /\ \A k \in (j + 1)..Len(uploads.cycles) : ~uploads.cycles[k].ran
         /\ Len(processedData) > 0)
        => StateIsOf(uploads.cycles[j].data)

(***************************************************************************)
(* C20: the messages of riskFactors                                        *)
(***************************************************************************)
ScoreMessages ==
    {"Very low score (<30%)", "Low score (<40%)", "Below passing threshold"}

AttendanceMessages ==
    {"Very low attendance (<50%)", "Low attendance (<60%)",
     "Below recommended attendance"}

CombinedMessage == "Combined low performance"

\* where a message stands: score band, attendance band, combined
MessageRank(message) ==
    IF message \in ScoreMessages THEN 1
    ELSE IF message \in AttendanceMessages THEN 2
    ELSE 3

\* is message among the factors
Listed(factors, message) == \E i \in 1..Len(factors) : factors[i] = message

\* the factors are as they should for marks m and attendance a
FactorsFit(factors, m, a) ==
    /\ Len(factors) <= 3
    /\ \A i \in 1..Len(factors) :
          factors[i] \in ScoreMessages \cup AttendanceMessages \cup {CombinedMessage}
    /\ \A i \in 1..Len(factors) : \A j \in (i + 1)..Len(factors) :
          MessageRank(factors[i]) < MessageRank(factors[j])
    /\ Listed(factors, "Very low score (<30%)") <=> m < N(30)
    /\ Listed(factors, "Low score (<40%)") <=> (N(30) <= m /\ m < N(40))
    /\ Listed(factors, "Below passing threshold") <=> (N(40) <= m /\ m < N(50))
    /\ Listed(factors, "Very low attendance (<50%)") <=> a < N(50)
    /\ Listed(factors, "Low attendance (<60%)") <=> (N(50) <= a /\ a < N(60))
    /\ Listed(factors, "Below recommended attendance") <=> (N(60) <= a /\ a < N(70))
    /\ Listed(factors, CombinedMessage) <=> (m < N(50) /\ a < N(70))
    /\ Listed(factors, CombinedMessage) <=>
          /\ \E message \in ScoreMessages : Listed(factors, message)
          /\ \E message \in AttendanceMessages : Listed(factors, message)

\* C20: the riskFactors of a record hold, in this order, at most one
\* score-band message (that of the lowest band of marks < 30, < 40, < 50
\* that applies), at most one attendance-band message (lowest of
\* attendance < 50, < 60, < 70), and the combined message exactly when
\* marks < 50 and attendance < 70, that is when both band messages are
\* there; never more than 3 messages.
C20_RiskFactorsByBands ==
    assessment # Null =>
        FactorsFit(assessment.factors.items, student.marks.n, student.attendance.n)

\* a record in the middle score band and the middle attendance band has
\* been assessed and carries the three messages
C20_Witness ==
    /\ assessment # Null
    /\ student.marks.n = N(35)
    /\ student.attendance.n = N(55)
    /\ assessment.factors.items =
          <<"Low score (<40%)", "Low attendance (<60%)", "Combined low performance">>

(***************************************************************************)
(* The histograms of the analytics engine on record sets whose marks and   *)
(* attendance lie on, just above and between the bounds of the bands.      *)
(***************************************************************************)
MaxBandRows == 2

BandRows ==
    {"S1,Al,20,50,Math,1,Quiz",
     "S2,Bo,20.5,50.5,Math,1,Exam",
     "S3,Cy,40,70,Art,2,Exam",
     "S4,Di,40.5,70.5,Art,2,Exam",
     "S5,Ed,60,85,Bio,1,Exam",
     "S6,Fy,80,85.5,Bio,1,Exam",
     "S7,Gi,80.5,100,Bio,2,Exam",
     "S8,Hu,0,0,Bio,2,Exam"}

\* the assessed record of each row
BandRecords == {assessedRecords(FullHeader \o "\n" \o row)[1] : row \in BandRows}

BandDataSets == UNION {[1..n -> BandRecords] : n \in 1..MaxBandRows}

InitDistribution ==
    /\ processedData \in BandDataSets
    /\ analytics = NewAnalyticsEngine
    /\ setDataArg = <<>>
    /\ setDataCalls = 0
    /\ csv = ""
    /\ clock = 1
    /\ outcome = "none"
    /\ parsed = <<>>
    /\ errors = <<>>
    /\ student = Null
    /\ assessment = Null
    /\ stage = "idle"
    /\ filterEngine = Null
    /\ csvContent = ""
    /\ reparsed = Null
    /\ answer = Null
    /\ filterCall = Null
    /\ uploads = [cycles |-> <<>>, timers |-> <<>>]
    /\ args = Null
    /\ tablePagination = Null

\* analyticsEngine.setData(processedData), as processData calls it
SetProcessedData ==
    /\ setDataCalls = 0
    /\ analytics' = setData(analytics, processedData)
    /\ setDataArg' = processedData
    /\ setDataCalls' = setDataCalls + 1
    /\ UNCHANGED <<csv, clock, outcome, parsed, errors, student, assessment,
                   stage, processedData, filterEngine, csvContent, reparsed,
                   answer, filterCall, uploads, args, tablePagination>>

NextDistribution == SetProcessedData

SpecDistribution == InitDistribution /\ [][NextDistribution]_vars

\* the bands of the two histograms: [key, above, upTo], for the values v
\* with above < v <= upTo (the first band from 0 on)
ScoreBands ==
    {[key |-> "0-20", above |-> -1, upTo |-> 20],
     [key |-> "21-40", above |-> 20, upTo |-> 40],
     [key |-> "41-60", above |-> 40, upTo |-> 60],
     [key |-> "61-80", above |-> 60, upTo |-> 80],
     [key |-> "81-100", above |-> 80, upTo |-> 100]}

AttendanceBands ==
    {[key |-> "0-50", above |-> -1, upTo |-> 50],
     [key |-> "51-70", above |-> 50, upTo |-> 70],
     [key |-> "71-85", above |-> 70, upTo |-> 85],
     [key |-> "86-100", above |-> 85, upTo |-> 100]}

\* how many records of data have their field in the band
InBand(data, field, band) ==
    Cardinality({i \in 1..Len(data) :
                    /\ N(band.above) < Get(data[i], field).n
                    /\ Get(data[i], field).n <= N(band.upTo)})

\* the sum of the counts of a histogram over keys
RECURSIVE TotalOf(_, _)
TotalOf(histogram, keys) ==
    IF keys = {} THEN Count(0)
    ELSE LET key == CHOOSE k \in keys : TRUE
         IN Plus(histogram[key], TotalOf(histogram, keys \ {key}))

\* the histogram counts each record in the band it lies in, bounds included
\* above, and its counts add up to total
HistogramFits(histogram, bands, data, field, total) ==
    /\ DOMAIN histogram = {band.key : band \in bands}
    /\ \A band \in bands : histogram[band.key] = Count(InBand(data, field, band))
    /\ \A i \in 1..Len(data) :
          Cardinality({band \in bands : InBand(<<data[i]>>, field, band) = 1}) = 1
    /\ TotalOf(histogram, DOMAIN histogram) = total

\* C21: in scoreDistribution and attendanceDistribution of a non-empty
\* record set every record is counted in exactly one band, so the counts of
\* each histogram add up to totalStudents; the upper bound of a band belongs
\* to it (marks 20 in 0-20, 40 in 21-40; attendance 50 in 0-50, 70 in
\* 51-70), and a value between two bands (20.5) counts in the higher one.
C21_HistogramsCountEachRecordOnce ==
    setDataCalls > 0 =>
        /\ HistogramFits(getMetrics(analytics).scoreDistribution, ScoreBands,
                         processedData, "marks",
                         getMetrics(analytics).totalStudents)
        /\ HistogramFits(getMetrics(analytics).attendanceDistribution,
                         AttendanceBands, processedData, "attendance",
                         getMetrics(analytics).totalStudents)

\* marks of exactly 20 and of 20.5 have been counted, in 0-20 and in 21-40
C21_Witness ==
    /\ setDataCalls > 0
    /\ Len(processedData) = 2
    /\ Get(processedData[1], "marks") = Num(N(20))
    /\ Get(processedData[2], "marks") = Num(N(20) + 1)
    /\ getMetrics(analytics).scoreDistribution["0-20"] = Count(1)
    /\ getMetrics(analytics).scoreDistribution["21-40"] = Count(1)
    /\ getMetrics(analytics).attendanceDistribution["0-50"] = Count(1)
    /\ getMetrics(analytics).attendanceDistribution["51-70"] = Count(1)

(***************************************************************************)
(* The line splitter on lines written field by field: each field is given  *)
(* as the text it has in the line and the token it stands for.             *)
(***************************************************************************)
MaxFields == 3

WrittenFields ==
    {[text |-> "ab", token |-> "ab"],
     [text |-> "", token |-> ""],
     [text |-> " p q ", token |-> "p q"],
     [text |-> "\"b,c\"", token |-> "b,c"],
     [text |-> "\"d\"\"e\"", token |-> "d\"e"],
     [text |-> "\"\"", token |-> ""],
     [text |-> "\"x,\"\"y\"\",z\"", token |-> "x,\"y\",z"],
     [text |-> "m\"n,o\"", token |-> "mn,o"]}

FieldLists == UNION {[1..n -> WrittenFields] : n \in 1..MaxFields}

\* the line of a list of written fields: their texts with commas between
RECURSIVE LineOf(_)
LineOf(fields) ==
    IF Len(fields) = 1 THEN fields[1].text
    ELSE fields[1].text \o "," \o LineOf(Tail(fields))

TokensOf(fields) == [i \in 1..Len(fields) |-> fields[i].token]

InitSplit ==
    /\ \E fields \in FieldLists :
          /\ csv = LineOf(fields)
          /\ setDataArg = fields
    /\ answer = Null
    /\ clock = 1
    /\ outcome = "none"
    /\ parsed = <<>>
    /\ errors = <<>>
    /\ student = Null
    /\ assessment = Null
    /\ analytics = NewAnalyticsEngine
    /\ setDataCalls = 0
    /\ stage = "idle"
    /\ processedData = <<>>
    /\ filterEngine = Null
    /\ csvContent = ""
    /\ reparsed = Null
    /\ filterCall = Null
    /\ uploads = [cycles |-> <<>>, timers |-> <<>>]
    /\ args = Null
    /\ tablePagination = Null

\* parseCSVLine(line)
CallParseCSVLine ==
    /\ stage = "idle"
    /\ stage' = "split"
    /\ answer' = parseCSVLine(csv)
    /\ UNCHANGED <<csv, clock, outcome, parsed, errors, student, assessment,
                   analytics, setDataArg, setDataCalls, processedData,
                   filterEngine, csvContent, reparsed, filterCall, uploads,
                   args, tablePagination>>

NextSplit == CallParseCSVLine

SpecSplit == InitSplit /\ [][NextSplit]_vars

\* C22: parseCSVLine returns one token per field of the line: a comma
\* outside double quotes ends a field, a comma inside a quoted span belongs
\* to the field, a doubled quote inside a quoted span is one quote character
\* of the token, and a field is split off the same way whatever quoted
\* fields stand before it.
C22_OneTokenPerField ==
    stage = "split" => answer = TokensOf(setDataArg)

\* a quoted field with a comma and doubled quotes, another field behind it
C22_Witness ==
    /\ stage = "split"
    /\ Len(answer) = 3
    /\ answer[1] = "x,\"y\",z"
    /\ answer[2] = "d\"e"
    /\ answer[3] = "ab"

(***************************************************************************)
(* The order of the view, stated on the cells of the records.              *)
(***************************************************************************)
\* the order of two records under a sort: negative, zero or positive, with
\* names compared as lower-case text and marks and attendance as numbers
KeyOrder(a, b, sort) ==
    LET ascending ==
            IF sort.key = "name"
            THEN LocaleCompare(FieldText(a, "name"), FieldText(b, "name"))
            ELSE IF sort.key = "score"
            THEN Get(a, "marks").n - Get(b, "marks").n
            ELSE Get(a, "attendance").n - Get(b, "attendance").n
    IN IF sort.direction = "asc" THEN ascending ELSE 0 - ascending

\* the place of a record in the base set
PlaceIn(base, item) == CHOOSE i \in 1..Len(base) : base[i] = item

\* view is in the order of sort, records that tie in the order of base
StablySorted(view, base, sort) ==
    \A i \in 1..Len(view) : \A j \in (i + 1)..Len(view) :
        /\ KeyOrder(view[i], view[j], sort) <= 0
        /\ KeyOrder(view[i], view[j], sort) = 0 =>
              PlaceIn(base, view[i]) < PlaceIn(base, view[j])

\* what a call of setSort does
SortStep ==
    filterCall'.op = "setSort" =>
        /\ ~filterCall'.threw
        /\ filterEngine'.originalData = filterEngine.originalData
        /\ SameRecords(getFilteredData(filterEngine'),
                       SelectSeq(filterEngine.originalData,
                                 LAMBDA item :
                                     SatisfiesAll(item, filterEngine.currentFilters)))
        /\ StablySorted(getFilteredData(filterEngine'), filterEngine.originalData,
                        filterEngine'.currentSort)

\* C23: after setSort the view is in the order of the sort key (names as
\* lower-case text, score as marks, attendance) in the direction asked for,
\* records with equal keys in the order of the base set in both directions;
\* the call changes neither which records are in the view nor the base set.
C23_SortOrdersTheView == [][SortStep]_vars

\* what a call of setSort that returns does
SortStepThatReturns ==
    (filterCall'.op = "setSort" /\ ~filterCall'.threw) =>
        /\ filterEngine'.originalData = filterEngine.originalData
        /\ SameRecords(getFilteredData(filterEngine'),
                       SelectSeq(filterEngine.originalData,
                                 LAMBDA item :
                                     SatisfiesAll(item, filterEngine.currentFilters)))
        /\ StablySorted(getFilteredData(filterEngine'), filterEngine.originalData,
                        filterEngine'.currentSort)

\* the same of the calls of setSort that return
C23_SortThatReturns == [][SortStepThatReturns]_vars

\* setSort('score-desc') has returned on two records with equal marks
C23_TieKeptInOrder ==
    /\ filterCall # Null
    /\ filterCall.op = "setSort"
    /\ ~filterCall.threw
    /\ filterEngine.currentSort.direction = "desc"
    /\ Len(getFilteredData(filterEngine)) = 2
    /\ KeyOrder(getFilteredData(filterEngine)[1], getFilteredData(filterEngine)[2],
                filterEngine.currentSort) = 0

(***************************************************************************)
(* RiskDetectionEngine: the operations on a set of assessed students       *)
(***************************************************************************)
getAtRiskCount(students) ==
    Num(N(Len(SelectSeq(students,
                        LAMBDA s : \/ Get(s, "riskLevel") = Str("high")
                                   \/ Get(s, "riskLevel") = Str("medium")))))

\* (the comparator of the two sorts, were it ascending)
byRiskScoreAscending(a, b) == Get(a, "riskScore").n - Get(b, "riskScore").n

\* the comparator of the two sorts: b.riskScore - a.riskScore
byRiskScore(a, b) == Get(b, "riskScore").n - Get(a, "riskScore").n

\* Array.prototype.sort with that comparator: a stable sort
RECURSIVE InsertStudent(_, _)
InsertStudent(x, sorted) ==
    IF Len(sorted) = 0 THEN <<x>>
    ELSE IF byRiskScore(x, Head(sorted)) < 0 THEN <<x>> \o sorted
    ELSE <<Head(sorted)>> \o InsertStudent(x, Tail(sorted))

RECURSIVE SortStudents(_)
SortStudents(students) ==
    IF Len(students) = 0 THEN <<>>
    ELSE InsertStudent(students[Len(students)],
                       SortStudents(SubSeq(students, 1, Len(students) - 1)))

getHighRiskStudents(students) ==
    SortStudents(SelectSeq(students, LAMBDA s : Get(s, "riskLevel") = Str("high")))

getMediumRiskStudents(students) ==
    SortStudents(SelectSeq(students, LAMBDA s : Get(s, "riskLevel") = Str("medium")))

\* summary[student.riskLevel]++ for each student, from the left
RECURSIVE countLevels(_, _)
countLevels(students, summary) ==
    IF Len(students) = 0 THEN summary
    ELSE countLevels(Tail(students),
                     Put(summary, Get(Head(students), "riskLevel").s,
                         Num(Get(summary, Get(Head(students), "riskLevel").s).n + N(1))))

generateRiskSummary(students) ==
    LET summary == countLevels(students,
                               ("total" :> Num(N(Len(students))))
                               @@ ("high" :> Num(0)) @@ ("medium" :> Num(0))
                               @@ ("low" :> Num(0)) @@ ("none" :> Num(0))
                               @@ ("atRiskTotal" :> Num(0)))
    IN Put(summary, "atRiskTotal",
           Num(Get(summary, "high").n + Get(summary, "medium").n))

MaxSummaryRows == 3

SummaryRows ==
    {"S1,Al,25,45,Math,1,Quiz",
     "S2,Bo,45,65,Math,1,Exam",
     "S3,Cy,55,45,Art,2,Exam",
     "S4,Di,35,90,Art,2,Exam",
     "S5,Ed,38,80,Bio,1,Exam",
     "S6,Fy,60,55,Bio,1,Exam",
     "S7,Gi,90,90,Bio,2,Exam",
     "S8,Hu,46,66,Bio,2,Exam"}

SummaryRecords == {assessedRecords(FullHeader \o "\n" \o row)[1] : row \in SummaryRows}

SummaryDataSets == UNION {[1..n -> SummaryRecords] : n \in 0..MaxSummaryRows}

InitSummary ==
    /\ processedData \in SummaryDataSets
    /\ setDataArg = processedData
    /\ stage = "idle"
    /\ answer = Null
    /\ csv = ""
    /\ clock = 1
    /\ outcome = "none"
    /\ parsed = <<>>
    /\ errors = <<>>
    /\ student = Null
    /\ assessment = Null
    /\ analytics = NewAnalyticsEngine
    /\ setDataCalls = 0
    /\ filterEngine = Null
    /\ csvContent = ""
    /\ reparsed = Null
    /\ filterCall = Null
    /\ uploads = [cycles |-> <<>>, timers |-> <<>>]
    /\ args = Null
    /\ tablePagination = Null

CallGenerateRiskSummary ==
    /\ stage = "idle"
    /\ stage' = "generateRiskSummary"
    /\ answer' = generateRiskSummary(processedData)
    /\ UNCHANGED <<csv, clock, outcome, parsed, errors, student, assessment,
                   analytics, setDataArg, setDataCalls, processedData,
                   filterEngine, csvContent, reparsed, filterCall, uploads,
                   args, tablePagination>>

CallGetHighRiskStudents ==
    /\ stage = "idle"
    /\ stage' = "getHighRiskStudents"
    /\ answer' = getHighRiskStudents(processedData)
    /\ UNCHANGED <<csv, clock, outcome, parsed, errors, student, assessment,
                   analytics, setDataArg, setDataCalls, processedData,
                   filterEngine, csvContent, reparsed, filterCall, uploads,
                   args, tablePagination>>

CallGetMediumRiskStudents ==
    /\ stage = "idle"
    /\ stage' = "getMediumRiskStudents"
    /\ answer' = getMediumRiskStudents(processedData)
    /\ UNCHANGED <<csv, clock, outcome, parsed, errors, student, assessment,
                   analytics, setDataArg, setDataCalls, processedData,
                   filterEngine, csvContent, reparsed, filterCall, uploads,
                   args, tablePagination>>

NextSummary ==
    \/ CallGenerateRiskSummary
    \/ CallGetHighRiskStudents
    \/ CallGetMediumRiskStudents

SpecSummary == InitSummary /\ [][NextSummary]_vars

\* how many students of data have the level
AtLevel(data, level) ==
    Cardinality({i \in 1..Len(data) : Get(data[i], "riskLevel") = Str(level)})

\* the places in data of the students of the level
PlacesAtLevel(data, level) ==
    {i \in 1..Len(data) : Get(data[i], "riskLevel") = Str(level)}

\* list holds exactly the students of data of the level, by descending
\* riskScore, equal scores in the order of data
ListedByRisk(list, data, level) ==
    \E place \in [1..Len(list) -> PlacesAtLevel(data, level)] :
        /\ Len(list) = AtLevel(data, level)
        /\ \A i \in 1..Len(list) : list[i] = data[place[i]]
        /\ \A i \in 1..Len(list) : \A j \in (i + 1)..Len(list) :
              \/ Get(list[i], "riskScore").n > Get(list[j], "riskScore").n
              \/ /\ Get(list[i], "riskScore").n = Get(list[j], "riskScore").n
                 /\ place[i] < place[j]

\* C24: generateRiskSummary counts every student under exactly one of high,
\* medium, low and none, so the four counts add up to total, and atRiskTotal
\* is high plus medium, the count getAtRiskCount returns; getHighRiskStudents
\* and getMediumRiskStudents return exactly the students of their level by
\* descending riskScore, equal scores in their order in the input, and none
\* of the operations changes its input.
C24_SummaryPartitionsAndListsSorted ==
    /\ processedData = setDataArg
    /\ stage = "generateRiskSummary" =>
          /\ \A level \in {"high", "medium", "low", "none"} :
                Get(answer, level) = Num(N(AtLevel(processedData, level)))
          /\ Get(answer, "total") = Num(N(Len(processedData)))
          /\ Get(answer, "high").n + Get(answer, "medium").n
             + Get(answer, "low").n + Get(answer, "none").n = Get(answer, "total").n
          /\ Get(answer, "atRiskTotal").n
             = Get(answer, "high").n + Get(answer, "medium").n
          /\ Get(answer, "atRiskTotal") = getAtRiskCount(processedData)
    /\ stage = "getHighRiskStudents" => ListedByRisk(answer, processedData, "high")
    /\ stage = "getMediumRiskStudents" => ListedByRisk(answer, processedData, "medium")

\* getHighRiskStudents has listed three students behind each other: the one
\* of the higher score first, then two of equal score in their input order
C24_Witness ==
    /\ stage = "getHighRiskStudents"
    /\ Len(processedData) = 3
    /\ Len(answer) = 3
    /\ answer[1] = processedData[2]
    /\ answer[2] = processedData[1]
    /\ answer[3] = processedData[3]
    /\ Get(answer[2], "riskScore") = Get(answer[3], "riskScore")
    /\ Get(answer[1], "riskScore").n > Get(answer[2], "riskScore").n
    /\ answer[2] # answer[3]

(***************************************************************************)
(* ForecastingEngine.linearForecast, on numbers held as fractions of       *)
(* halves: the arithmetic is exact.                                        *)
(***************************************************************************)
\* a * b
Times(a, b) == Frac(a.n * b.n, a.d * b.d * Scale)

\* a / b, b not zero
Over(a, b) ==
    IF b.n < 0 THEN Frac(0 - a.n * b.d * Scale, 0 - a.d * b.n)
    ELSE Frac(a.n * b.d * Scale, a.d * b.n)

\* (the clamp, were it from above only)
clampForecastAbove(y) ==
    IF Compare(Count(100), y) < 0 THEN Count(100) ELSE y

\* Math.max(0, Math.min(100, y))
clampForecast(y) ==
    LET least == IF Compare(Count(100), y) < 0 THEN Count(100) ELSE y
    IN IF Compare(Count(0), least) > 0 THEN Count(0) ELSE least

\* data.reduce((a, b) => a + b, 0)
RECURSIVE SumSeries(_)
SumSeries(data) ==
    IF Len(data) = 0 THEN Count(0)
    ELSE Plus(SumSeries(SubSeq(data, 1, Len(data) - 1)), data[Len(data)])

\* the loop over i < n, here over the first k indices: numerator and
\* denominator
RECURSIVE trendSums(_, _, _, _)
trendSums(data, avgX, avgY, k) ==
    IF k = 0 THEN [numerator |-> Count(0), denominator |-> Count(0)]
    ELSE LET before == trendSums(data, avgX, avgY, k - 1)
             dx == Minus(Count(k - 1), avgX)
         IN [numerator |-> Plus(before.numerator, Times(dx, Minus(data[k], avgY))),
             denominator |-> Plus(before.denominator, Times(dx, dx))]

linearForecast(data, periods) ==
    IF Len(data) < 2
    THEN [i \in 1..periods |->
             IF Len(data) = 0 \/ data[1].n = 0 THEN Count(0) ELSE data[1]]
    ELSE LET n == Len(data)
             avgX == Over(Count(n - 1), Count(2))
             avgY == Over(SumSeries(data), Count(n))
             sums == trendSums(data, avgX, avgY, n)
             slope == IF sums.denominator.n # 0
                      THEN Over(sums.numerator, sums.denominator)
                      ELSE Count(0)
             intercept == Minus(avgY, Times(slope, avgX))
         IN [i \in 1..periods |->
                clampForecast(Plus(Times(slope, Count(n + i - 1)), intercept))]

MaxSeries == 3
MaxPeriods == 3

\* mean scores: 0, 0.5, 50, 99.5 and 100
SeriesValues == {Frac(0, 1), Frac(1, 1), Count(50), Frac(199, 1), Count(100)}

SeriesSet == UNION {[1..n -> SeriesValues] : n \in 0..MaxSeries}

InitForecast ==
    /\ args \in [series : SeriesSet, periods : 0..MaxPeriods]
    /\ stage = "idle"
    /\ answer = Null
    /\ processedData = <<>>
    /\ setDataArg = <<>>
    /\ csv = ""
    /\ clock = 1
    /\ outcome = "none"
    /\ parsed = <<>>
    /\ errors = <<>>
    /\ student = Null
    /\ assessment = Null
    /\ analytics = NewAnalyticsEngine
    /\ setDataCalls = 0
    /\ filterEngine = Null
    /\ csvContent = ""
    /\ reparsed = Null
    /\ filterCall = Null
    /\ uploads = [cycles |-> <<>>, timers |-> <<>>]
    /\ tablePagination = Null

CallLinearForecast ==
    /\ stage = "idle"
    /\ stage' = "linearForecast"
    /\ answer' = linearForecast(args.series, args.periods)
    /\ UNCHANGED <<csv, clock, outcome, parsed, errors, student, assessment,
                   analytics, setDataArg, setDataCalls, processedData,
                   filterEngine, csvContent, reparsed, filterCall, uploads,
                   args, tablePagination>>

NextForecast == CallLinearForecast

SpecForecast == InitForecast /\ [][NextForecast]_vars

\* sums over the points (i, y[i]) of a series, i from 0, the values in halves
RECURSIVE SumOf(_, _)
SumOf(term(_), n) == IF n = 0 THEN 0 ELSE SumOf(term, n - 1) + term(n - 1)

\* the least-squares line through the points of a series of n >= 2 values,
\* from the normal equations: at x it is Above(series, x) / Below(series),
\* in halves
Above(series, x) ==
    LET n == Len(series)
        sx == SumOf(LAMBDA i : i, n)
        sxx == SumOf(LAMBDA i : i * i, n)
        sy == SumOf(LAMBDA i : series[i + 1].n, n)
        sxy == SumOf(LAMBDA i : i * series[i + 1].n, n)
    IN sy * sxx - sx * sxy + (n * sxy - sx * sy) * x

Below(series) ==
    LET n == Len(series)
        sx == SumOf(LAMBDA i : i, n)
        sxx == SumOf(LAMBDA i : i * i, n)
    IN n * sxx - sx * sx

\* value, a fraction of halves, is num / den clamped to [0, 100]; den > 0
IsClamped(value, num, den) ==
    IF num < 0 THEN value = Count(0)
    ELSE IF num > N(100) * den THEN value = Count(100)
    ELSE value.n * den = num * value.d

Distinct(values) ==
    LET first == {i \in 1..Len(values) : \A j \in 1..(i - 1) : values[j] # values[i]}
        RECURSIVE from(_)
        from(i) == IF i > Len(values) THEN <<>>
                   ELSE IF i \in first THEN <<values[i]>> \o from(i + 1)
                   ELSE from(i + 1)
    IN from(1)

\* the values of a field of the base set that are truthy, each once
uniqueValues(engine, field) ==
    Distinct(SelectSeq([i \in 1..Len(engine.originalData) |->
                           Get(engine.originalData[i], field)],
                       Truthy))

\* getUniqueSemesters(): sorted by parseInt(a) || 0
getUniqueSemesters(engine) ==
    LET semesters == uniqueValues(engine, "semester")
        sorted == SortBySemester([i \in 1..Len(semesters) |->
                                     ("semester" :> semesters[i])])
    IN [i \in 1..Len(sorted) |-> Get(sorted[i], "semester")]

\* the value of the option updateFilters makes of a semester or a subject:
\* option.value = semester stores a string
optionValue(v) == JsToString(v)

\* the values of the options of the semester box
SemesterOptions(engine) ==
    {optionValue(getUniqueSemesters(engine)[i]) : i \in 1..Len(getUniqueSemesters(engine))}

\* the records of the base set whose cell of the field reads as the text
WithCell(engine, field, text) ==
    SelectSeq(engine.originalData, LAMBDA item : JsToString(Get(item, field)) = text)

NoOtherFilter(engine) ==
    /\ engine.currentFilters.search = ""
    /\ engine.currentFilters.subject = ""
    /\ engine.currentFilters.riskLevel = ""

\* C26: once the semester box has been set to the option of a semester s
\* that getUniqueSemesters() lists, and no other filter is set, the view
\* holds exactly the records whose semester cell was s, so it is not empty.
C26_OptionSelectsItsRecords ==
    (/\ filterCall # Null
     /\ filterCall.op = "setSemesterFilter"
     /\ ~filterCall.threw
     /\ filterEngine.currentFilters.semester \in SemesterOptions(filterEngine)
     /\ NoOtherFilter(filterEngine)) =>
        /\ SameRecords(getFilteredData(filterEngine),
                       WithCell(filterEngine, "semester",
                                filterEngine.currentFilters.semester))
        /\ Len(getFilteredData(filterEngine)) > 0

\* the same of the semesters that the base set holds as strings
C26_TextOptionSelectsItsRecords ==
    (/\ filterCall # Null
     /\ filterCall.op = "setSemesterFilter"
     /\ ~filterCall.threw
     /\ \E i \in 1..Len(getUniqueSemesters(filterEngine)) :
           getUniqueSemesters(filterEngine)[i]
               = Str(filterEngine.currentFilters.semester)
     /\ NoOtherFilter(filterEngine)) =>
        /\ SameRecords(getFilteredData(filterEngine),
                       WithCell(filterEngine, "semester",
                                filterEngine.currentFilters.semester))
        /\ Len(getFilteredData(filterEngine)) > 0

\* the option of the semester 1 has been chosen and the view is empty
C26_NumberOptionSelectsNothing ==
    /\ filterCall # Null
    /\ filterCall.op = "setSemesterFilter"
    /\ ~filterCall.threw
    /\ filterEngine.currentFilters.semester = "1"
    /\ "1" \in SemesterOptions(filterEngine)
    /\ NoOtherFilter(filterEngine)
    /\ Len(getFilteredData(filterEngine)) = 0

(***************************************************************************)
(* The scores and levels that records within [0, 100] can have.            *)
(***************************************************************************)
\* the riskScore a level goes with
ScoresOfLevel(level) ==
    CASE level = "none" -> {0}
      [] level = "low" -> {30}
      [] level = "medium" -> {40}
      [] level = "high" -> {70, 80, 100}

\* C27: for marks and attendance within [0, 100] riskScore is one of 0, 30,
\* 40, 70, 80 and 100, and riskLevel is none exactly at 0, low at 30, medium
\* at 40 and high from 70 on; a record with marks below 30 is high with
\* riskScore 100 whatever its attendance.
C27_ScoresAndLevelsOfRecords ==
    assessment # Null =>
        /\ assessment.riskScore.n \in {N(k) : k \in {0, 30, 40, 70, 80, 100}}
        /\ assessment.riskLevel.s \in {"none", "low", "medium", "high"}
        /\ assessment.riskScore.n \in {N(k) : k \in ScoresOfLevel(assessment.riskLevel.s)}
        /\ student.marks.n < N(30) =>
              /\ assessment.riskLevel = Str("high")
              /\ assessment.riskScore = Num(N(100))

\* a record with marks just below 30 and full attendance is high at 100
C27_Witness ==
    /\ assessment # Null
    /\ student.marks.n = N(30) - 1
    /\ student.attendance.n = N(100)
    /\ assessment.riskLevel = Str("high")
    /\ assessment.riskScore = Num(N(100))

\* C28: a record whose riskLevel is not none, that is whose riskScore is
\* above 0, has at least one risk factor: when a rule fires, a message
\* explains it.
C28_RiskHasFactors ==
    assessment # Null =>
        /\ assessment.riskLevel # Str("none") <=> assessment.riskScore.n > 0
        /\ assessment.riskLevel # Str("none") => Len(assessment.factors.items) > 0

\* a record at low risk for its attendance alone has the one message
C28_Witness ==
    /\ assessment # Null
    /\ student.marks.n = N(60)
    /\ student.attendance.n = N(55)
    /\ assessment.riskLevel = Str("low")
    /\ assessment.factors.items = <<"Low attendance (<60%)">>

(***************************************************************************)
(* TablePagination and the handlers of the page that call updateTable      *)
(***************************************************************************)
NewTablePagination == [currentPage |-> 1, itemsPerPage |-> 20, totalItems |-> 0]

\* Math.ceil(this.totalItems / this.itemsPerPage)
totalPages(pagination) ==
    (pagination.totalItems + pagination.itemsPerPage - 1) \div pagination.itemsPerPage

setTotalItems(pagination, total) == [pagination EXCEPT !.totalItems = total]

previousPage(pagination) ==
    IF pagination.currentPage > 1
    THEN [pagination EXCEPT !.currentPage = @ - 1]
    ELSE pagination

\* (nextPage without its bound)
nextPageUnbounded(pagination) == [pagination EXCEPT !.currentPage = @ + 1]

nextPage(pagination) ==
    IF pagination.currentPage < totalPages(pagination)
    THEN [pagination EXCEPT !.currentPage = @ + 1]
    ELSE pagination

\* data.slice(start, end)
getCurrentPageData(pagination, data) ==
    SubSeq(data,
           (pagination.currentPage - 1) * pagination.itemsPerPage + 1,
           Min(pagination.currentPage * pagination.itemsPerPage, Len(data)))

\* updateTable(): the total of the pagination becomes the length of the view
updateTable(pagination, engine) ==
    setTotalItems(pagination, Len(getFilteredData(engine)))

\* what a handler of a filter control leaves: the engine after the call and,
\* unless the call threw, the pagination after updateTable()
afterFilterCall(called, pagination) ==
    [engine |-> called.engine,
     threw |-> called.threw,
     pagination |-> IF called.threw THEN pagination
                    ELSE updateTable(pagination, called.engine)]

MaxPageUploads == 2

\* a file of 21 records, one page and one record: 20 of the subject Art and
\* one of the subject Math
PageRow(i) ==
    "S" \o NatToStr(i) \o ",n" \o NatToStr(i)
    \o (IF i = 21 THEN ",25,45,Math,S2,Exam" ELSE ",60,80,Art,S1,Quiz")

PageRecords ==
    [i \in 1..21 |-> assessedRecords(FullHeader \o "\n" \o PageRow(i))[1]]

PageDataSets == {PageRecords, SubSeq(PageRecords, 20, 21)}

PageSubjects == {"", "Math"}
PageSearches == {"", "s2"}
PageSorts == {"name-asc", "score-desc"}

InitPages ==
    /\ processedData = <<>>
    /\ analytics = NewAnalyticsEngine
    /\ filterEngine = NewFilterEngine
    /\ tablePagination = NewTablePagination
    /\ filterCall = Null
    /\ setDataArg = <<>>
    /\ setDataCalls = 0
    /\ stage = "idle"
    /\ answer = Null
    /\ csv = ""
    /\ clock = 1
    /\ outcome = "none"
    /\ parsed = <<>>
    /\ errors = <<>>
    /\ student = Null
    /\ assessment = Null
    /\ csvContent = ""
    /\ reparsed = Null
    /\ uploads = [cycles |-> <<>>, timers |-> <<>>]
    /\ args = Null

\* processData(data), for the records of an upload
ProcessUpload ==
    /\ setDataCalls < MaxPageUploads
    /\ \E data \in PageDataSets :
       \E f \in {filterSetData(filterEngine, data)} :
          /\ processedData' = data
          /\ analytics' = setData(analytics, data)
          /\ setDataArg' = data
          /\ setDataCalls' = setDataCalls + 1
          /\ filterEngine' = f.engine
          /\ filterCall' = [op |-> "setData", threw |-> f.threw]
          /\ tablePagination' =
                IF f.threw THEN tablePagination
                ELSE [updateTable(tablePagination, f.engine) EXCEPT !.currentPage = 1]
    /\ UNCHANGED <<csv, clock, outcome, parsed, errors, student, assessment,
                   stage, csvContent, reparsed, answer, uploads, args>>

\* the change listener of the subject box
SubjectChange ==
    /\ \E subject \in PageSubjects :
       \E after \in {afterFilterCall(setSubjectFilter(filterEngine, subject),
                                     tablePagination)} :
          /\ filterEngine' = after.engine
          /\ filterCall' = [op |-> "setSubjectFilter", threw |-> after.threw]
          /\ tablePagination' = after.pagination
    /\ UNCHANGED <<csv, clock, outcome, parsed, errors, student, assessment,
                   analytics, setDataArg, setDataCalls, stage, processedData,
                   csvContent, reparsed, answer, uploads, args>>

\* the input listener of the search box, once its debounce has run
SearchInput ==
    /\ \E query \in PageSearches :
       \E after \in {afterFilterCall(setSearch(filterEngine, query),
                                     tablePagination)} :
          /\ filterEngine' = after.engine
          /\ filterCall' = [op |-> "setSearch", threw |-> after.threw]
          /\ tablePagination' = after.pagination
    /\ UNCHANGED <<csv, clock, outcome, parsed, errors, student, assessment,
                   analytics, setDataArg, setDataCalls, stage, processedData,
                   csvContent, reparsed, answer, uploads, args>>

\* the change listener of the sort box
SortChange ==
    /\ \E sortKey \in PageSorts :
       \E after \in {afterFilterCall(setSort(filterEngine, sortKey),
                                     tablePagination)} :
          /\ filterEngine' = after.engine
          /\ filterCall' = [op |-> "setSort", threw |-> after.threw]
          /\ tablePagination' = after.pagination
    /\ UNCHANGED <<csv, clock, outcome, parsed, errors, student, assessment,
                   analytics, setDataArg, setDataCalls, stage, processedData,
                   csvContent, reparsed, answer, uploads, args>>

\* the click listener of the clear-filters button
ClearFiltersClick ==
    /\ \E after \in {afterFilterCall(clearFilters(filterEngine), tablePagination)} :
          /\ filterEngine' = after.engine
          /\ filterCall' = [op |-> "clearFilters", threw |-> after.threw]
          /\ tablePagination' = after.pagination
    /\ UNCHANGED <<csv, clock, outcome, parsed, errors, student, assessment,
                   analytics, setDataArg, setDataCalls, stage, processedData,
                   csvContent, reparsed, answer, uploads, args>>

\* the click listeners of the two page buttons: the page changes, then
\* updateTable() through refreshTable()
NextPageClick ==
    /\ tablePagination.currentPage < totalPages(tablePagination)
    /\ tablePagination' = updateTable(nextPage(tablePagination), filterEngine)
    /\ UNCHANGED <<csv, clock, outcome, parsed, errors, student, assessment,
                   analytics, setDataArg, setDataCalls, stage, processedData,
                   filterEngine, csvContent, reparsed, answer, filterCall,
                   uploads, args>>

PreviousPageClick ==
    /\ tablePagination.currentPage > 1
    /\ tablePagination' = updateTable(previousPage(tablePagination), filterEngine)
    /\ UNCHANGED <<csv, clock, outcome, parsed, errors, student, assessment,
                   analytics, setDataArg, setDataCalls, stage, processedData,
                   filterEngine, csvContent, reparsed, answer, filterCall,
                   uploads, args>>

NextPages ==
    \/ ProcessUpload
    \/ SubjectChange
    \/ SearchInput
    \/ SortChange
    \/ ClearFiltersClick
    \/ NextPageClick
    \/ PreviousPageClick

SpecPages == InitPages /\ [][NextPages]_vars

\* the last page there is: max(1, ceil(totalItems / itemsPerPage))
LastPage(pagination) == Max(1, totalPages(pagination))

\* C29: after any uploads, changes of the filters and of the sort, clearing
\* of the filters and clicks on the page buttons, currentPage lies within
\* 1..max(1, ceil(totalItems / itemsPerPage)), so that the page of a view
\* that is not empty is not empty.
C29_CurrentPageInRange ==
    /\ tablePagination.currentPage \in 1..LastPage(tablePagination)
    /\ Len(getFilteredData(filterEngine)) > 0 =>
          Len(getCurrentPageData(tablePagination, getFilteredData(filterEngine))) > 0

\* the same while no filter has narrowed the view since the last page click
C29_PageButtonsKeepRange ==
    [][(filterEngine' = filterEngine
        /\ tablePagination.currentPage \in 1..LastPage(tablePagination))
       => tablePagination'.currentPage \in 1..LastPage(tablePagination')]_vars

\* the second page is shown, of 21 records
C29_SecondPage ==
    /\ tablePagination.currentPage = 2
    /\ tablePagination.totalItems = 21
    /\ Len(getCurrentPageData(tablePagination, getFilteredData(filterEngine))) = 1

(***************************************************************************)
(* A clear of the file while an upload is in flight.  uploads.cleared      *)
(* keeps the uploads that were in flight at the last call of               *)
(* handleClearFile, until the next upload is started.                      *)
(***************************************************************************)
\* the uploads that were in flight at the clear have finished, and no
\* upload has been started since
ClearedUploadsFinished ==
    /\ uploads.cleared # {}
    /\ \A i \in uploads.cleared : uploads.cycles[i].pc \in {"done", "failed"}

StateIsEmpty ==
    /\ processedData = <<>>
    /\ analytics.data = <<>>
    /\ filterEngine.originalData = <<>>

\* C30: when handleClearFile has run while an upload started before it was
\* in flight, then once that upload has finished the record set, the data of
\* the analytics engine and the base set of the filter engine are still
\* empty, unless an upload has been started after the clear.
C30_ClearedDataStaysCleared ==
    ClearedUploadsFinished => StateIsEmpty

\* the same of the uploads that were refused or failed before processData
C30_ClearedStaysWhenUploadFails ==
    (/\ ClearedUploadsFinished
     /\ \A i \in uploads.cleared : ~uploads.cycles[i].ran) => StateIsEmpty

\* an upload that was in flight at the clear has finished and its records
\* are the state
C30_UploadRestoresData ==
    /\ ClearedUploadsFinished
    /\ \E i \in uploads.cleared :
          /\ uploads.cycles[i].pc = "done"
          /\ processedData = assessAllStudents(uploads.cycles[i].data)
          /\ Len(processedData) > 0
          /\ filterEngine.originalData = processedData

====
